---- MODULE Spec2Model ----
(***************************************************************************)
(* Model of syzdescriptor's analysis pipeline: the generation driver, the  *)
(* four passes over one handler record (Fops) and the syzlang generator.   *)
(* The CodeDB (ftdb) is read-only input, drawn in Init from bounded        *)
(* families of type tables and function tables.                            *)
(***************************************************************************)
EXTENDS Integers, Sequences, FiniteSets, TLC

\* Largest number of fields of the root record in the drawn type tables.
MaxFields == 2

\* Largest number of dispatch-table instances in a drawn batch.
MaxHandlers == 2

\* Largest number of functions in a drawn call chain.
ChainLen == 5

VARIABLES
    types,            \* ftdb['types']: type-id -> type entry
    funcs,            \* ftdb['funcs']: function-id -> function entry
    fopsvars,         \* ftdb['fops']: sequence of dispatch-table instances
    globals,          \* ftdb['globals']: var id -> [name]
    fops,             \* the driver's list of Fops records (after collection)
    idx,              \* 1-based position of the handler being processed
    pc,               \* driver position
    passlog,          \* per handler: sequence of <<pass name, outcome>>
    generated_consts, \* Generator.generated_consts: name -> value
    generated_types,  \* Generator.generated_types: type-id -> list of names
    files             \* output directory: file name -> content

vars == <<types, funcs, fopsvars, globals, fops, idx, pc, passlog,
          generated_consts, generated_types, files>>

ftdb == <<types, funcs, fopsvars, globals>>

(***************************************************************************)
(* Generic helpers: Python dicts are functions with a finite domain.       *)
(***************************************************************************)
EmptyDict == <<>>

\* { **a, **b }: keys of b override keys of a.
DictMerge(a, b) ==
    [k \in (DOMAIN a) \cup (DOMAIN b) |-> IF k \in DOMAIN b THEN b[k] ELSE a[k]]

DictPut(d, k, v) == [x \in (DOMAIN d) \cup {k} |-> IF x = k THEN v ELSE d[x]]

Range(s) == {s[i] : i \in DOMAIN s}

\* All orders in which a Python set can be iterated.
Orders(S) ==
    {s \in [1..Cardinality(S) -> S] : \A i, j \in DOMAIN s : i # j => s[i] # s[j]}

RECURSIVE SortedSeq(_)
\* The elements of a finite set of integers in ascending order.
SortedSeq(S) ==
    IF S = {} THEN <<>>
    ELSE LET m == CHOOSE x \in S : \A y \in S : x <= y
         IN <<m>> \o SortedSeq(S \ {m})

StartsWith(s, p) == Len(s) >= Len(p) /\ SubSeq(s, 1, Len(p)) = p
EndsWith(s, p) == Len(s) >= Len(p) /\ SubSeq(s, Len(s) - Len(p) + 1, Len(s)) = p

RECURSIVE FindFrom(_, _, _)
\* Position of the first occurrence of sep in s at or after i, 0 if none.
FindFrom(s, sep, i) ==
    IF i + Len(sep) - 1 > Len(s) THEN 0
    ELSE IF SubSeq(s, i, i + Len(sep) - 1) = sep THEN i
    ELSE FindFrom(s, sep, i + 1)

RECURSIVE SplitLast(_, _)
\* s.split(sep)[-1]
SplitLast(s, sep) ==
    LET p == FindFrom(s, sep, 1)
    IN IF p = 0 THEN s ELSE SplitLast(SubSeq(s, p + Len(sep), Len(s)), sep)

\* s.split(sep)[0]
SplitFirst(s, sep) ==
    LET p == FindFrom(s, sep, 1)
    IN IF p = 0 THEN s ELSE SubSeq(s, 1, p - 1)

(***************************************************************************)
(* passes.py: Fops                                                         *)
(***************************************************************************)
\* A freshly constructed Fops has only name and syscall_id; `has` lists the
\* attributes set so far (hasattr).
Fops(name, syscall_id) ==
    [name |-> name, syscall_id |-> syscall_id, has |-> {},
     commands |-> {}, deps |-> {},
     pointer_cycles |-> EmptyDict, pointer_bounds |-> EmptyDict]

PointerCycle(cycled_id, member_position) ==
    [cycled_id |-> cycled_id, member_position |-> member_position]

MemberBounds(type_id, binding_member, bound_member) ==
    [type_id |-> type_id, binding_member |-> binding_member,
     bound_member |-> bound_member]

(***************************************************************************)
(* passes.py: IoctlAnalysisPass                                            *)
(***************************************************************************)
IOCTL_COMMAND_ARG == <<"parm", 1>>
IOCTL_ARGUMENT_ARG == <<"parm", 2>>
FORWARD_DECLARED_TYPES == {"record_forward", "enum_forward"}

\* Recursion cap of recursively_pick_ioctl_with_switchcase.
IoctlMaxDepth == 3

pick_switchcases_by_argument_name(fid, condition) ==
    LET sw == funcs[fid].switches
    IN SelectSeq(sw, LAMBDA s : s.condition = condition)

RECURSIVE ForwardedFrom(_, _)
ForwardedFrom(function, i) ==
    IF i > Len(function.callrefs) THEN <<>>
    ELSE LET callref == function.callrefs[i]
             typeparams == [k \in DOMAIN callref |-> <<callref[k].type, callref[k].id>>]
             typepos == [k \in DOMAIN callref |-> callref[k].pos]
             first == CHOOSE k \in DOMAIN callref :
                          /\ typeparams[k] = IOCTL_COMMAND_ARG
                          /\ \A j \in 1..(k - 1) : typeparams[j] # IOCTL_COMMAND_ARG
         IN (IF /\ IOCTL_COMMAND_ARG \in Range(typeparams)
                /\ IOCTL_ARGUMENT_ARG \in Range(typeparams)
             THEN <<<<function.calls[i], typepos[first]>>>>
             ELSE <<>>) \o ForwardedFrom(function, i + 1)

\* A search that follows every callsite with the command at index 1.
get_forwarded_EveryCall(fid) ==
    [i \in DOMAIN funcs[fid].calls |-> <<funcs[fid].calls[i], 1>>]

get_forwarded_ioctls(fid) == ForwardedFrom(funcs[fid], 1)

RECURSIVE recursively_pick_ioctl_with_switchcase(_, _, _)
RECURSIVE PickForwarded(_, _, _)
\* The same search giving up one level later.
recursively_pick_OneDeeper(fid, argument_id, depth) ==
    IF depth > IoctlMaxDepth + 1 THEN <<>>
    ELSE IF fid \notin DOMAIN funcs \/ argument_id + 1 > Len(funcs[fid].locals)
    THEN <<>>
    ELSE LET argument_name == funcs[fid].locals[argument_id + 1].name
             targeted_switch == pick_switchcases_by_argument_name(fid, argument_name)
         IN (IF targeted_switch # <<>> THEN <<<<fid, argument_id>>>> ELSE <<>>)
            \o PickForwarded(get_forwarded_ioctls(fid), 1, depth)

recursively_pick_ioctl_with_switchcase(fid, argument_id, depth) ==
    IF depth > IoctlMaxDepth THEN <<>>
    ELSE IF fid \notin DOMAIN funcs \/ argument_id + 1 > Len(funcs[fid].locals)
    THEN <<>>
    ELSE LET argument_name == funcs[fid].locals[argument_id + 1].name
             targeted_switch == pick_switchcases_by_argument_name(fid, argument_name)
         IN (IF targeted_switch # <<>> THEN <<<<fid, argument_id>>>> ELSE <<>>)
            \o PickForwarded(get_forwarded_ioctls(fid), 1, depth)

PickForwarded(cands, i, depth) ==
    IF i > Len(cands) THEN <<>>
    ELSE recursively_pick_ioctl_with_switchcase(cands[i][1], cands[i][2], depth + 1)
         \o PickForwarded(cands, i + 1, depth)

\* __strip_type: (stripped name, deducted typekind)
strip_type(type_name) ==
    LET ptr(name) == IF EndsWith(type_name, " *") THEN SplitFirst(name, " *") ELSE name
    IN IF StartsWith(type_name, "struct ")
       THEN <<ptr(SplitLast(type_name, "struct ")), "record">>
       ELSE IF StartsWith(type_name, "union ")
       THEN <<ptr(SplitLast(type_name, "union ")), "record">>
       ELSE IF StartsWith(type_name, "enum ")
       THEN <<ptr(SplitLast(type_name, "enum ")), "enum">>
       ELSE IF EndsWith(type_name, " *")
       THEN <<SplitFirst(type_name, " *"), "pointer">>
       ELSE IF EndsWith(type_name, " [")
       THEN <<SplitFirst(type_name, " ["), "const_array">>
       ELSE <<type_name, "builtin">>

\* __get_ftdb_type_id_from_string: None is modelled as -1.
get_ftdb_type_id_from_string(type_name) ==
    LET identifier == strip_type(type_name)[1]
        found == {t \in DOMAIN types :
                     /\ types[t].str = identifier
                     /\ types[t].class \notin FORWARD_DECLARED_TYPES}
    IN IF found = {} THEN -1
       ELSE CHOOSE t \in found : \A u \in found : t <= u

\* The cases one picked function contributes (the body of the outer loop).
CasesOfFunction(function_id, argument_id) ==
    LET argument_name == funcs[function_id].locals[argument_id + 1].name
        switches == pick_switchcases_by_argument_name(function_id, argument_name)
        allcases == UNION {Range(switches[k].cases) : k \in DOMAIN switches}
    IN {<<c.label, c.value, get_ftdb_type_id_from_string(c.expanded.type_name)>> :
           c \in {c \in allcases :
                     /\ c.expanded.sizeof
                     \* `if not type_id: continue` also drops None and id 0
                     /\ get_ftdb_type_id_from_string(c.expanded.type_name) > 0}}

analyze_switch_cases(fid) ==
    LET functions == recursively_pick_ioctl_with_switchcase(fid, 1, 1)
    IN UNION {CasesOfFunction(functions[k][1], functions[k][2]) : k \in DOMAIN functions}

analyze_ioctl_commands(fid) == analyze_switch_cases(fid) \cup {}

(***************************************************************************)
(* passes.py: TypeAnalysisPass                                             *)
(***************************************************************************)
RECURSIVE detypedef(_)
detypedef(type_id) ==
    IF types[type_id].class = "typedef"
    THEN detypedef(types[type_id].refs[1])
    ELSE type_id

RECURSIVE dereference(_)
dereference(type_id) ==
    IF types[type_id].class \in {"pointer", "typedef"}
    THEN dereference(types[type_id].refs[1])
    ELSE type_id

contains_fields(type_id) == Len(types[detypedef(type_id)].refs) > 0

RECURSIVE FindDeps(_, _)
RECURSIVE FindDepsRefs(_, _, _)
\* A dependency walk that does not look behind pointers.
FindDeps_StopAtPointer(type_id, found) ==
    IF type_id \in found THEN found
    ELSE IF types[type_id].class \in {"enum", "pointer"} THEN found \cup {type_id}
    ELSE FindDepsRefs(types[type_id].refs, 1, found \cup {type_id})

\* __find_unique_type_dependencies: `found` is shared by the whole DFS.
FindDeps(type_id, found) ==
    IF type_id \in found THEN found
    ELSE IF types[type_id].class = "enum" THEN found \cup {type_id}
    ELSE FindDepsRefs(types[type_id].refs, 1, found \cup {type_id})

FindDepsRefs(refs, i, found) ==
    IF i > Len(refs) THEN found
    ELSE FindDepsRefs(refs, i + 1, FindDeps(detypedef(refs[i]), found))

find_unique_type_dependencies(type_id) == FindDeps(detypedef(type_id), {})

\* The dependencies of the commands without the contains_fields filter.
TypeDeps_Unfiltered(commands) ==
    UNION {find_unique_type_dependencies(c[3]) : c \in commands}

\* Lines 562-566: fops.deps.
TypeDeps(commands) ==
    {x \in UNION {find_unique_type_dependencies(c[3]) : c \in commands} :
        contains_fields(x)}

(***************************************************************************)
(* passes.py: PointerCyclesPass                                            *)
(***************************************************************************)
\* The cycles found among the fields of record type_id (lines 586-597),
\* member positions 0-based as in the source.
OwnCycles(type_id, traversed) ==
    LET refs == types[type_id].refs
        hit(i) == /\ types[refs[i]].class = "pointer"
                  /\ dereference(refs[i]) \in traversed
        pos == SortedSeq({i \in 1..Len(refs) : hit(i)})
    IN [k \in DOMAIN pos |-> PointerCycle(dereference(refs[pos[k]]), pos[k] - 1)]

RECURSIVE AnalyzeCycles(_, _)
RECURSIVE AnalyzeCyclesRefs(_, _, _, _)
\* __analyze_pointer_cycles: returns the cycles dict and the mutated traversed set.
AnalyzeCycles(type_id, traversed) ==
    IF type_id \in traversed THEN [cycles |-> EmptyDict, traversed |-> traversed]
    ELSE IF types[type_id].class # "record"
    THEN [cycles |-> EmptyDict, traversed |-> traversed]
    ELSE LET own == OwnCycles(type_id, traversed)
             cycles == IF own = <<>> THEN EmptyDict ELSE DictPut(EmptyDict, type_id, own)
         IN AnalyzeCyclesRefs(types[type_id].refs, 1, cycles, traversed \cup {type_id})

AnalyzeCyclesRefs(refs, i, cycles, traversed) ==
    IF i > Len(refs) THEN [cycles |-> cycles, traversed |-> traversed]
    ELSE IF refs[i] \in traversed
    THEN AnalyzeCyclesRefs(refs, i + 1, cycles, traversed)
    ELSE LET sub == AnalyzeCycles(dereference(refs[i]), traversed)
         IN AnalyzeCyclesRefs(refs, i + 1, DictMerge(cycles, sub.cycles), sub.traversed)

analyze_pointer_cycles(type_id) == AnalyzeCycles(detypedef(type_id), {}).cycles

RECURSIVE CyclesOfRoots(_, _, _)
\* The loop of PointerCyclesPass.process over the commands in iteration order.
CyclesOfRoots(order, i, acc) ==
    IF i > Len(order) THEN acc
    ELSE CyclesOfRoots(order, i + 1,
                       DictMerge(acc, analyze_pointer_cycles(order[i][3])))

(***************************************************************************)
(* passes.py: PointerBoundsPass                                            *)
(***************************************************************************)
\* Every user-copy function has the same two models; argument positions 0-based.
BINDING_CALLS ==
    [n \in {"copy_from_user", "copy_to_user"} |->
        <<[binding |-> 2, bound |-> 0], [binding |-> 2, bound |-> 1]>>]

\* Recursion cap of analyze_bounds.
BoundsMaxDepth == 4

\* Keys of id_to_name, in insertion order (by function name, then by id).
id_to_name_keys ==
    SortedSeq({f \in DOMAIN funcs : funcs[f].name = "copy_from_user"})
    \o SortedSeq({f \in DOMAIN funcs : funcs[f].name = "copy_to_user"})

find_indexes_of_element(lst, element) ==
    SortedSeq({i \in DOMAIN lst : lst[i] = element})

RECURSIVE CallIndexes(_, _, _)
CallIndexes(db_func, keys, i) ==
    IF i > Len(keys) THEN <<>>
    ELSE find_indexes_of_element(db_func.calls, keys[i])
         \o CallIndexes(db_func, keys, i + 1)

\* A result of the analysis: st is "ok", "raise" (an exception leaves the
\* pass) or "hang" (the deref walk never ends).
BoundsResult(st, res) == [st |-> st, res |-> res]

RECURSIVE WalkDerefs(_, _, _, _)
\* The while loop of lines 747-758 over deref ids (0-based).  Each deref has
\* one successor, so a walk that is not over after Len(derefs) + 1 steps has
\* come back to a deref it visited and never ends.
WalkDerefs(derefs, binding, bound, fuel) ==
    LET isMember(d) == derefs[d + 1].kind = "member"
        canStep(d) == /\ derefs[d + 1].offsetrefs # <<>>
                      /\ derefs[d + 1].offsetrefs[1].id + 1 \in DOMAIN derefs
        step(d) == derefs[d + 1].offsetrefs[1].id
    IN IF isMember(binding) /\ isMember(bound)
       THEN [st |-> "ok", binding |-> binding, bound |-> bound]
       ELSE IF fuel = 0 THEN [st |-> "hang", binding |-> binding, bound |-> bound]
       ELSE IF ~isMember(binding) /\ ~canStep(binding)
       THEN [st |-> "raise", binding |-> binding, bound |-> bound]
       ELSE IF ~isMember(bound) /\ ~canStep(bound)
       THEN [st |-> "raise", binding |-> binding, bound |-> bound]
       ELSE WalkDerefs(derefs,
                       IF isMember(binding) THEN binding ELSE step(binding),
                       IF isMember(bound) THEN bound ELSE step(bound),
                       fuel - 1)

\* One iteration of the model loop that records the pair without looking at
\* the parent records of the two members.
BoundsOfModel_AnyParent(db_func, call_index, model, res) ==
    LET derefs == db_func.derefs
        call_info == db_func.call_info
        args == call_info[call_index].args
        argOk(pos) == /\ call_index \in DOMAIN call_info
                      /\ pos + 1 \in DOMAIN args
                      /\ args[pos + 1] + 1 \in DOMAIN derefs
        binding0 == args[model.binding + 1]
        bound0 == args[model.bound + 1]
        walked == WalkDerefs(derefs, binding0, bound0,
                             Len(derefs) + 1)
        binding_deref == derefs[walked.binding + 1]
        bound_deref == derefs[walked.bound + 1]
        parent == bound_deref.type[Len(bound_deref.type)]
        member_bounds ==
            MemberBounds(parent,
                         binding_deref.member[Len(binding_deref.member)],
                         bound_deref.member[Len(bound_deref.member)])
    IN IF ~argOk(model.binding) \/ ~argOk(model.bound)
       THEN BoundsResult("raise", res)
       ELSE IF derefs[binding0 + 1].offsetrefs = <<>> THEN BoundsResult("raise", res)
       ELSE IF derefs[binding0 + 1].offsetrefs[1].kind # "member"
       THEN BoundsResult("ok", res)
       ELSE IF derefs[bound0 + 1].offsetrefs = <<>> THEN BoundsResult("raise", res)
       ELSE IF derefs[bound0 + 1].offsetrefs[1].kind # "member"
       THEN BoundsResult("ok", res)
       ELSE IF walked.st # "ok" THEN BoundsResult(walked.st, res)
       ELSE IF binding_deref.type = <<>> \/ bound_deref.type = <<>>
       THEN BoundsResult("raise", res)
       ELSE IF binding_deref.member = <<>> \/ bound_deref.member = <<>>
       THEN BoundsResult("raise", res)
       ELSE BoundsResult("ok",
               DictPut(res, parent,
                       (IF parent \in DOMAIN res THEN res[parent] ELSE {})
                       \cup {member_bounds}))

\* One iteration of `for model in models` (lines 731-781) on the result so far.
BoundsOfModel(db_func, call_index, model, res) ==
    LET derefs == db_func.derefs
        call_info == db_func.call_info
        args == call_info[call_index].args
        argOk(pos) == /\ call_index \in DOMAIN call_info
                      /\ pos + 1 \in DOMAIN args
                      /\ args[pos + 1] + 1 \in DOMAIN derefs
        binding0 == args[model.binding + 1]
        bound0 == args[model.bound + 1]
        walked == WalkDerefs(derefs, binding0, bound0,
                             Len(derefs) + 1)
        binding_deref == derefs[walked.binding + 1]
        bound_deref == derefs[walked.bound + 1]
        parent == bound_deref.type[Len(bound_deref.type)]
        member_bounds ==
            MemberBounds(parent,
                         binding_deref.member[Len(binding_deref.member)],
                         bound_deref.member[Len(bound_deref.member)])
    IN IF ~argOk(model.binding) \/ ~argOk(model.bound)
       THEN BoundsResult("raise", res)
       ELSE IF derefs[binding0 + 1].offsetrefs = <<>> THEN BoundsResult("raise", res)
       ELSE IF derefs[binding0 + 1].offsetrefs[1].kind # "member"
       THEN BoundsResult("ok", res)
       ELSE IF derefs[bound0 + 1].offsetrefs = <<>> THEN BoundsResult("raise", res)
       ELSE IF derefs[bound0 + 1].offsetrefs[1].kind # "member"
       THEN BoundsResult("ok", res)
       ELSE IF walked.st # "ok" THEN BoundsResult(walked.st, res)
       ELSE IF binding_deref.type = <<>> \/ bound_deref.type = <<>>
       THEN BoundsResult("raise", res)
       \* Assure that we are binding only members within the same record
       ELSE IF binding_deref.type[Len(binding_deref.type)] # parent
       THEN BoundsResult("ok", res)
       ELSE IF parent \notin DOMAIN types THEN BoundsResult("raise", res)
       ELSE IF types[parent].class = "record" /\ types[parent].union
       THEN BoundsResult("ok", res)
       ELSE IF binding_deref.member = <<>> \/ bound_deref.member = <<>>
       THEN BoundsResult("raise", res)
       ELSE BoundsResult("ok",
               DictPut(res, parent,
                       (IF parent \in DOMAIN res THEN res[parent] ELSE {})
                       \cup {member_bounds}))

RECURSIVE BoundsOfCalls(_, _, _, _)
\* The loop of lines 726-781: every call index, every model of its function.
BoundsOfCalls(db_func, call_indexes, k, acc) ==
    IF acc.st # "ok" \/ k > 2 * Len(call_indexes) THEN acc
    ELSE LET call_index == call_indexes[(k + 1) \div 2]
             models == BINDING_CALLS[funcs[db_func.calls[call_index]].name]
             model == models[2 - (k % 2)]
         IN BoundsOfCalls(db_func, call_indexes, k + 1,
                          BoundsOfModel(db_func, call_index, model, acc.res))

RECURSIVE analyze_bounds(_, _)
RECURSIVE BoundsOfCallees(_, _, _, _)
analyze_bounds(func_id, depth) ==
    IF func_id \notin DOMAIN funcs THEN BoundsResult("ok", EmptyDict)
    ELSE LET db_func == funcs[func_id]
             call_indexes == CallIndexes(db_func, id_to_name_keys, 1)
         IN IF depth > BoundsMaxDepth \/ call_indexes = <<>>
            THEN BoundsResult("ok", EmptyDict)
            ELSE BoundsOfCallees(db_func.calls, 1, depth,
                     BoundsOfCalls(db_func, call_indexes, 1,
                                   BoundsResult("ok", EmptyDict)))

\* The loop of lines 783-784 over the callees.
BoundsOfCallees(calls, i, depth, acc) ==
    IF acc.st # "ok" \/ i > Len(calls) THEN acc
    ELSE LET sub == analyze_bounds(calls[i], depth + 1)
         IN BoundsOfCallees(calls, i + 1, depth,
                BoundsResult(sub.st, DictMerge(acc.res, sub.res)))

(***************************************************************************)
(* syzlang.py: declaration classes and their __str__                       *)
(***************************************************************************)
\* A declaration object: k is its class, inner holds at most one nested
\* declaration, text the already rendered inner text of a LengthDeclaration,
\* optional the attribute the cycle marking sets.  k = "Raise" stands for an
\* exception raised while the declaration was built.
Decl(k, name, size, inner, text) ==
    [k |-> k, name |-> name, size |-> size, inner |-> inner, text |-> text,
     optional |-> FALSE]

BaseDeclaration == Decl("Base", "", 0, <<>>, "")
RaisedDeclaration == Decl("Raise", "", 0, <<>>, "")
RecordDeclaration(name) == Decl("Record", name, 0, <<>>, "")
IntegerDeclaration(size) == Decl("Integer", "", size, <<>>, "")
VoidDeclaration == Decl("Void", "", 0, <<>>, "")
EnumDeclaration(layout_type, inside_type) == Decl("Enum", layout_type, 0, <<inside_type>>, "")
\* An array declaration that keeps the size it is given.
ArrayDeclaration_RawSize(inside_type, size) ==
    IF inside_type.k = "Raise" THEN RaisedDeclaration
    ELSE Decl("Array", "", size, <<inside_type>>, "")

\* size if size > 0 else 1
ArrayDeclaration(inside_type, size) ==
    IF inside_type.k = "Raise" THEN RaisedDeclaration
    ELSE Decl("Array", "", IF size > 0 THEN size ELSE 1, <<inside_type>>, "")
PointerDeclaration(inside_type) ==
    IF inside_type.k = "Raise" THEN RaisedDeclaration
    ELSE Decl("Pointer", "", 0, <<inside_type>>, "")
LengthDeclaration(field_name, inside_text) == Decl("Length", field_name, 0, <<>>, inside_text)

RECURSIVE DeclStr(_)
\* __str__ of the declaration classes.
DeclStr(d) ==
    CASE d.k = "Record" -> d.name
      [] d.k = "Enum" -> "flags[" \o d.name \o ", " \o DeclStr(d.inner[1]) \o "]"
      [] d.k = "Integer" -> "int" \o ToString(d.size)
      [] d.k = "Void" -> "void"
      [] d.k = "Array" ->
            "array[" \o DeclStr(d.inner[1]) \o ", " \o ToString(d.size) \o "]"
      [] d.k = "Pointer" ->
            IF d.inner[1].k = "Void" THEN "buffer[inout]"
            ELSE IF d.optional
            THEN "ptr[inout, " \o DeclStr(d.inner[1]) \o ", opt]"
            ELSE "ptr[inout, " \o DeclStr(d.inner[1]) \o "]"
      [] d.k = "Length" -> "len[" \o d.name \o ", " \o d.text \o "]"
      [] OTHER -> ""

\* RecordField.__str__ is "<name> <type_decl>"; kept as the two parts.
RecordField(name, type_decl) == [name |-> name, type_decl |-> type_decl]

\* ConstantDefinition.__str__ is "<name>_syzdescriptor = <value>".
ConstantDefinition(name, value) == [name |-> name \o "_syzdescriptor", value |-> value]

\* IoctlDeclaration.__str__, kept as its parts.
IoctlDeclaration(fd_name, label, argument) ==
    [name |-> "ioctl$" \o label \o "_syzdescriptor", fd |-> fd_name,
     cmd |-> "const[" \o label \o "_syzdescriptor]", arg |-> DeclStr(argument)]

OpenDeclaration(label, open_path, fd_name) ==
    [name |-> "openat$" \o label \o "_syzdescriptor",
     file |-> "ptr[in, string[" \o open_path \o "_syzdescriptor]]", fd |-> fd_name]

(***************************************************************************)
(* syzlang.py: Generator                                                   *)
(***************************************************************************)
RECURSIVE find_new_const_name(_, _)
find_new_const_name(consts, name) ==
    IF name \in DOMAIN consts THEN find_new_const_name(consts, name \o "_") ELSE name

\* __rename_already_used_consts: the commands set after the renaming.
rename_already_used_consts(consts, commands) ==
    LET to_remove == {c \in commands : c[1] \in DOMAIN consts}
    IN (commands \ to_remove)
       \cup {<<find_new_const_name(consts, el[1]), el[2], el[3]>> : el \in to_remove}

RECURSIVE RecordConsts(_, _, _)
\* generated_consts after the loop of generate_const_file over `order`.
RecordConsts(consts, order, i) ==
    IF i > Len(order) THEN consts
    ELSE RecordConsts(DictPut(consts, order[i][1], order[i][2]), order, i + 1)

\* The lines generate_const_file writes for commands iterated in `order`.
generate_const_file(order) ==
    [i \in DOMAIN order |-> ConstantDefinition(order[i][1], order[i][2])]

HasGeneratedType(gt, typeid) == typeid \in DOMAIN gt /\ gt[typeid] # <<>>

\* __assign_name_to_type: the name given to typeid, "" for None.
AssignedName(gt, typeid) ==
    IF HasGeneratedType(gt, typeid)
    THEN gt[typeid][Len(gt[typeid])] \o "_"
    ELSE LET db_type == types[detypedef(typeid)]
         IN IF db_type.class \notin {"record", "enum"} THEN ""
            ELSE IF db_type.str = "" THEN "ANONTYPE_" \o ToString(typeid)
            ELSE db_type.str

\* Whether __assign_name_to_type returns a tuple rather than None.
IsAssigned(gt, typeid) ==
    HasGeneratedType(gt, typeid) \/ types[detypedef(typeid)].class \in {"record", "enum"}

\* generated_types after __assign_name_to_type ran on every member of deps.
assign_name_to_type(gt, deps) ==
    LET named == {d \in deps : IsAssigned(gt, d)}
    IN [t \in (DOMAIN gt) \cup named |->
           IF t \in named
           THEN (IF HasGeneratedType(gt, t) THEN gt[t] ELSE <<>>)
                \o <<AssignedName(gt, t)>>
           ELSE gt[t]]

RECURSIVE generate_type_declaration(_, _)
generate_type_declaration(gt, type_id) ==
    LET db_type == types[detypedef(type_id)]
        id == detypedef(type_id)
    IN CASE db_type.class = "record" ->
              IF ~HasGeneratedType(gt, id) THEN BaseDeclaration
              ELSE RecordDeclaration(gt[id][Len(gt[id])])
         [] db_type.class \in {"const_array", "incomplete_array"} ->
              LET size == IF db_type.size = 0 THEN 1 ELSE db_type.size
                  underlying_type == types[db_type.refs[1]]
              IN IF underlying_type.size = 0 THEN RaisedDeclaration
                 ELSE ArrayDeclaration(generate_type_declaration(gt, db_type.refs[1]),
                                       size \div underlying_type.size)
         [] db_type.class = "enum" ->
              IF ~HasGeneratedType(gt, id) THEN BaseDeclaration
              ELSE EnumDeclaration(gt[id][Len(gt[id])], IntegerDeclaration(32))
         [] db_type.class = "pointer" ->
              PointerDeclaration(
                  generate_type_declaration(gt, detypedef(db_type.refs[1])))
         [] db_type.class = "builtin" /\ db_type.str = "void" -> VoidDeclaration
         [] db_type.class = "builtin" /\ db_type.str # "void" /\ db_type.size > 64 ->
              IF db_type.size % 8 # 0 THEN RaisedDeclaration
              ELSE ArrayDeclaration(IntegerDeclaration(8), db_type.size \div 8)
         [] db_type.class = "builtin" /\ db_type.str # "void" /\ db_type.size <= 64 ->
              IntegerDeclaration(db_type.size)
         [] OTHER -> BaseDeclaration

RECURSIVE AnonymousBefore(_, _)
\* How many anonymous field names precede position i.
AnonymousBefore(refnames, i) ==
    IF i <= 1 THEN 0
    ELSE AnonymousBefore(refnames, i - 1)
         + (IF refnames[i - 1] \in {"__!anonrecord__", "__!recorddecl__"} THEN 1 ELSE 0)

filter_anonymous_type_names(refnames, i) ==
    IF refnames[i] \in {"__!anonrecord__", "__!recorddecl__"}
    THEN "anonymous" \o ToString(AnonymousBefore(refnames, i))
    ELSE refnames[i]

RECURSIVE ApplyBounds(_, _, _)
\* Lines 322-328: the bounds of the record, taken in `order`; <<>> stands
\* for an IndexError.
ApplyBounds(fields, order, i) ==
    IF i > Len(order) \/ fields = <<>> THEN fields
    ELSE LET bound == order[i]
             b == bound.binding_member + 1
         IN IF b \notin DOMAIN fields \/ bound.bound_member + 1 \notin DOMAIN fields
            THEN <<>>
            ELSE ApplyBounds(
                    [fields EXCEPT ![b].type_decl =
                        LengthDeclaration(fields[bound.bound_member + 1].name,
                                          DeclStr(fields[b].type_decl))],
                    order, i + 1)

RECURSIVE ApplyCycles(_, _, _)
\* Lines 330-332; <<>> stands for an IndexError.
ApplyCycles(fields, cyclelist, i) ==
    IF i > Len(cyclelist) \/ fields = <<>> THEN fields
    ELSE LET p == cyclelist[i].member_position + 1
         IN IF p \notin DOMAIN fields THEN <<>>
            ELSE ApplyCycles([fields EXCEPT ![p].type_decl.optional = TRUE],
                             cyclelist, i + 1)

\* generate_record_definition; border is the iteration order of the set
\* self.bounds[type_id].  ok = FALSE stands for an exception.
generate_record_definition(gt, bounds, cycles, type_id, name, union, border) ==
    LET db_type == types[detypedef(type_id)]
        n == IF Len(db_type.refnames) < Len(db_type.refs)
             THEN Len(db_type.refnames) ELSE Len(db_type.refs)
        fields0 == [i \in 1..n |->
                       RecordField(filter_anonymous_type_names(db_type.refnames, i),
                                   generate_type_declaration(gt, db_type.refs[i]))]
        raised0 == \E i \in 1..n : fields0[i].type_decl.k = "Raise"
        fields1 == IF type_id \in DOMAIN bounds /\ bounds[type_id] # {}
                   THEN ApplyBounds(fields0, border, 1) ELSE fields0
        fields2 == IF type_id \in DOMAIN cycles /\ cycles[type_id] # <<>>
                   THEN ApplyCycles(fields1, cycles[type_id], 1) ELSE fields1
    IN [k |-> "record", ok |-> ~raised0 /\ (n = 0 \/ fields2 # <<>>),
        name |-> name, union |-> union, values |-> <<>>,
        fields |-> [i \in DOMAIN fields2 |->
                       [name |-> fields2[i].name,
                        type |-> DeclStr(fields2[i].type_decl)]]]

generate_enum_definition(type_id, name) ==
    [k |-> "enum", ok |-> TRUE, name |-> name, union |-> FALSE,
     values |-> types[detypedef(type_id)].values, fields |-> <<>>]

\* __generate_type_definition; k = "base" renders as the empty string.
generate_type_definition(gt, bounds, cycles, type_id, name, border) ==
    LET db_type == types[detypedef(type_id)]
    IN IF db_type.class = "record"
       THEN generate_record_definition(gt, bounds, cycles, type_id, name,
                                       db_type.union, border)
       ELSE IF db_type.class = "enum" THEN generate_enum_definition(type_id, name)
       ELSE [k |-> "base", ok |-> TRUE, name |-> "", union |-> FALSE,
             values |-> <<>>, fields |-> <<>>]

\* __generate_ioctl_declaration: <<>> for the empty BaseDeclaration, else the
\* one declaration; "raise" in arg stands for an exception.
generate_ioctl_declaration(gt, fd_name, label, type_id) ==
    LET db_type == types[detypedef(type_id)]
        argument_type == generate_type_declaration(gt, type_id)
    IN IF argument_type.k = "Base" THEN <<>>
       ELSE IF argument_type.k = "Raise"
       THEN <<[name |-> "", fd |-> fd_name, cmd |-> "", arg |-> "raise"]>>
       ELSE IF db_type.class = "pointer"
       THEN <<IoctlDeclaration(fd_name, label, argument_type)>>
       ELSE <<IoctlDeclaration(fd_name, label, PointerDeclaration(argument_type))>>

RECURSIVE IoctlDeclarations(_, _, _, _)
\* Lines 399-402: the ioctl declarations in the iteration order of commands.
IoctlDeclarations(gt, fd_name, order, i) ==
    IF i > Len(order) THEN <<>>
    ELSE generate_ioctl_declaration(gt, fd_name, order[i][1], order[i][3])
         \o IoctlDeclarations(gt, fd_name, order, i + 1)

\* The iteration orders of the bound sets: one order per type-id.
BoundOrders(bounds) ==
    {f \in [DOMAIN bounds -> UNION {Orders(bounds[t]) : t \in DOMAIN bounds}] :
        \A t \in DOMAIN bounds : f[t] \in Orders(bounds[t])}

\* generate_description, given generated_consts and generated_types as they
\* are when it is called: the text of the description file, in parts.
\* order: iteration order of commands; dorder: iteration order of the set of
\* (id, name) pairs; borders: iteration orders of the bound sets.
generate_description(consts, gt0, fop, order, dorder, borders) ==
    LET gt == assign_name_to_type(gt0, fop.deps)
        fd_name == "fd_" \o fop.name
        path == find_new_const_name(consts,
                    "SYZDESCRIPTOR_PATH_" \o ToString(fop.syscall_id))
        ioctls == IoctlDeclarations(gt, fd_name, order, 1)
        defs == [i \in DOMAIN dorder |->
                    generate_type_definition(gt, fop.pointer_bounds,
                        fop.pointer_cycles, dorder[i], gt[dorder[i]][Len(gt[dorder[i]])],
                        IF dorder[i] \in DOMAIN borders THEN borders[dorder[i]]
                        ELSE <<>>)]
    IN [ok |-> /\ \A i \in DOMAIN ioctls : ioctls[i].arg # "raise"
               /\ \A i \in DOMAIN defs : defs[i].ok,
        resource |-> fd_name, path |-> path, anchor |-> fop.syscall_id,
        open |-> OpenDeclaration(fop.name, path, fd_name),
        ioctls |-> ioctls,
        definitions |-> SelectSeq(defs, LAMBDA d : d.k # "base")]

(***************************************************************************)
(* passes.py: FopsCollector                                                *)
(***************************************************************************)
FILE_OPERATIONS == {"file_operations", "proc_ops", "uart_ops"}

\* Ids of get_fops_types(): full record definitions named as a dispatch table.
fops_ids ==
    {t \in DOMAIN types :
        types[t].str \in FILE_OPERATIONS /\ types[t].class # "record_forward"}

get_fops_vars == SelectSeq(fopsvars, LAMBDA x : x.type \in fops_ids)

RECURSIVE find_new_fops_name(_, _)
find_new_fops_name(names, name) ==
    IF name \in names THEN find_new_fops_name(names, name \o "_") ELSE name

RECURSIVE CollectMembers_AnyKind(_, _, _, _, _)
\* The collection without the test for a global instance.
CollectMembers_AnyKind(var, name, field_ids, k, acc) ==
    IF k > Len(field_ids) THEN acc
    ELSE LET field_id == field_ids[k]
             func_id == var.members[field_id][1]
             fields == types[var.type].refnames
             fop_type == IF Len(fields) >= field_id + 1 THEN fields[field_id + 1] ELSE ""
             fops_name == globals[var.var].name
             names == {acc[i].name : i \in DOMAIN acc}
         IN IF /\ fop_type # ""
               /\ fop_type = name
               /\ func_id \in DOMAIN funcs
            THEN CollectMembers_AnyKind(var, name, field_ids, k + 1,
                     Append(acc, Fops(find_new_fops_name(names, fops_name), func_id)))
            ELSE CollectMembers_AnyKind(var, name, field_ids, k + 1, acc)

\* The Fops one instance adds to the dict `acc` (kept in insertion order) for
\* the members in ascending field order from position k of `fields_ids` on.
RECURSIVE CollectMembers(_, _, _, _, _)
CollectMembers(var, name, field_ids, k, acc) ==
    IF k > Len(field_ids) THEN acc
    ELSE LET field_id == field_ids[k]
             func_id == var.members[field_id][1]
             fields == types[var.type].refnames
             fop_type == IF Len(fields) >= field_id + 1 THEN fields[field_id + 1] ELSE ""
             fops_name == globals[var.var].name
             names == {acc[i].name : i \in DOMAIN acc}
         IN IF /\ fop_type # ""
               /\ fop_type = name
               /\ func_id \in DOMAIN funcs
               /\ var.kind = "global"
            THEN CollectMembers(var, name, field_ids, k + 1,
                     Append(acc, Fops(find_new_fops_name(names, fops_name), func_id)))
            ELSE CollectMembers(var, name, field_ids, k + 1, acc)

RECURSIVE CollectVars(_, _, _, _, _)
CollectVars(fops_type, name, vs, i, acc) ==
    IF i > Len(vs) THEN acc
    \* the instance's type entry is compared with the dispatch type name
    ELSE IF types[vs[i].type].str # fops_type
    THEN CollectVars(fops_type, name, vs, i + 1, acc)
    ELSE CollectVars(fops_type, name, vs, i + 1,
             CollectMembers(vs[i], name, SortedSeq(DOMAIN vs[i].members), 1, acc))

collect_fops(fops_type, name) == CollectVars(fops_type, name, get_fops_vars, 1, <<>>)

(***************************************************************************)
(* driver.py: GenerationDriver                                             *)
(***************************************************************************)
SUPPORTED_SYSCALLS ==
    <<<<"file_operations", "unlocked_ioctl">>,
      <<"proc_ops", "proc_ioctl">>,
      <<"uart_ops", "ioctl">>>>

\* A pass list in which a failing TypeAnalysisPass keeps the handler.
passes_TypePassKeeps ==
    <<[name |-> "IoctlAnalysisPass", skip_on_fail |-> TRUE],
      [name |-> "TypeAnalysisPass", skip_on_fail |-> FALSE],
      [name |-> "PointerCyclesPass", skip_on_fail |-> FALSE],
      [name |-> "PointerBoundsPass", skip_on_fail |-> FALSE]>>

\* self.passes: the pass sequence and skip_on_fail of each.
passes ==
    <<[name |-> "IoctlAnalysisPass", skip_on_fail |-> TRUE],
      [name |-> "TypeAnalysisPass", skip_on_fail |-> TRUE],
      [name |-> "PointerCyclesPass", skip_on_fail |-> FALSE],
      [name |-> "PointerBoundsPass", skip_on_fail |-> FALSE]>>

architecture == "arm64"

PassIndex(name) == CHOOSE k \in DOMAIN passes : passes[k].name = name

\* A driver that ends the batch once a handler is finished or discarded.
NextFop_EndsBatch ==
    /\ idx' = idx + 1
    /\ pc' = "done"

\* Where the driver goes once the current handler is finished or discarded.
NextFop ==
    /\ idx' = idx + 1
    /\ pc' = IF idx + 1 > Len(fops) THEN "done" ELSE passes[1].name

\* A driver that treats an exception in a pass like a false return.
AfterPass_RaiseIsFalse(k, outcome) ==
    /\ passlog' = [passlog EXCEPT ![idx] = Append(@, <<passes[k].name, outcome>>)]
    /\ IF outcome = "hang" THEN pc' = "hang" /\ idx' = idx
       ELSE IF passes[k].skip_on_fail /\ outcome \in {"false", "raise"} THEN NextFop
       ELSE /\ idx' = idx
            /\ pc' = IF k = Len(passes) THEN "dump_file" ELSE passes[k + 1].name

\* Lines 105-121 after p.process(fop) ended with `outcome` in pass k:
\* "raise" exits the process, a failure of a skip_on_fail pass discards the
\* handler, anything else goes on to the next pass or to dump_file.
AfterPass(k, outcome) ==
    /\ passlog' = [passlog EXCEPT ![idx] = Append(@, <<passes[k].name, outcome>>)]
    /\ IF outcome = "raise" THEN pc' = "exit" /\ idx' = idx
       ELSE IF outcome = "hang" THEN pc' = "hang" /\ idx' = idx
       ELSE IF passes[k].skip_on_fail /\ outcome = "false" THEN NextFop
       ELSE /\ idx' = idx
            /\ pc' = IF k = Len(passes) THEN "dump_file" ELSE passes[k + 1].name

Outcome(success) == IF success THEN "true" ELSE "false"

\* __generate_descriptions, lines 92-95: the handlers of every target syscall.
generate_descriptions ==
    /\ pc = "collect"
    /\ fops' = collect_fops(SUPPORTED_SYSCALLS[1][1], SUPPORTED_SYSCALLS[1][2])
               \o collect_fops(SUPPORTED_SYSCALLS[2][1], SUPPORTED_SYSCALLS[2][2])
               \o collect_fops(SUPPORTED_SYSCALLS[3][1], SUPPORTED_SYSCALLS[3][2])
    /\ idx' = 1
    /\ pc' = IF fops' = <<>> THEN "done" ELSE passes[1].name
    /\ passlog' = [h \in DOMAIN fops' |-> <<>>]
    /\ UNCHANGED <<ftdb, generated_consts, generated_types, files>>

IoctlAnalysisPass_process ==
    /\ pc = "IoctlAnalysisPass"
    /\ LET commands == analyze_ioctl_commands(fops[idx].syscall_id)
       IN /\ fops' = [fops EXCEPT ![idx].commands = commands,
                                  ![idx].has = @ \cup {"commands"}]
          /\ AfterPass(1, Outcome(Cardinality(commands) > 0))
    /\ UNCHANGED <<ftdb, generated_consts, generated_types, files>>

TypeAnalysisPass_process ==
    /\ pc = "TypeAnalysisPass"
    /\ IF "commands" \notin fops[idx].has
       THEN /\ AfterPass(2, "raise")
            /\ UNCHANGED fops
       ELSE LET deps == TypeDeps(fops[idx].commands)
            IN /\ fops' = [fops EXCEPT ![idx].deps = deps,
                                       ![idx].has = @ \cup {"deps"}]
               /\ AfterPass(2, Outcome(Cardinality(deps) > 0))
    /\ UNCHANGED <<ftdb, generated_consts, generated_types, files>>

PointerCyclesPass_process ==
    /\ pc = "PointerCyclesPass"
    /\ IF "commands" \notin fops[idx].has
       THEN /\ AfterPass(3, "raise")
            /\ UNCHANGED fops
       ELSE \E order \in Orders(fops[idx].commands) :
               /\ fops' = [fops EXCEPT
                              ![idx].pointer_cycles = CyclesOfRoots(order, 1, EmptyDict),
                              ![idx].has = @ \cup {"pointer_cycles"}]
               /\ AfterPass(3, "true")
    /\ UNCHANGED <<ftdb, generated_consts, generated_types, files>>

PointerBoundsPass_process ==
    /\ pc = "PointerBoundsPass"
    /\ LET r == analyze_bounds(fops[idx].syscall_id, 1)
       IN IF r.st = "ok"
          THEN /\ fops' = [fops EXCEPT ![idx].pointer_bounds = r.res,
                                       ![idx].has = @ \cup {"pointer_bounds"}]
               /\ AfterPass(4, "true")
          ELSE /\ AfterPass(4, r.st)
               /\ UNCHANGED fops
    /\ UNCHANGED <<ftdb, generated_consts, generated_types, files>>

const_path(fop) == fop.name \o "_" \o architecture \o ".const"
desc_path(fop) == fop.name \o ".txt"

\* dump_file: both files are opened create-exclusive; an exception leaves the
\* driver uncaught ("crash") with what was written so far.
dump_file ==
    /\ pc = "dump_file"
    /\ UNCHANGED <<ftdb, passlog>>
    /\ IF const_path(fops[idx]) \in DOMAIN files
       THEN /\ pc' = "crash"
            /\ UNCHANGED <<fops, idx, generated_consts, generated_types, files>>
       ELSE LET commands == rename_already_used_consts(generated_consts,
                                                       fops[idx].commands)
                fop == [fops[idx] EXCEPT !.commands = commands]
                gt == assign_name_to_type(generated_types, fop.deps)
                named == {d \in fop.deps : IsAssigned(generated_types, d)}
            IN \E order \in Orders(commands), dorder \in Orders(named),
                  borders \in BoundOrders(fop.pointer_bounds) :
                 LET consts == RecordConsts(generated_consts, order, 1)
                     cfile == [kind |-> "const", lines |-> generate_const_file(order)]
                     desc == generate_description(consts, generated_types, fop,
                                                  order, dorder, borders)
                     written == DictPut(files, const_path(fop), cfile)
                 IN /\ fops' = [fops EXCEPT ![idx] = fop]
                    /\ IF desc_path(fop) \in DOMAIN files
                       THEN /\ files' = written
                            /\ generated_consts' = consts
                            /\ UNCHANGED generated_types
                            /\ pc' = "crash" /\ idx' = idx
                       ELSE /\ generated_types' = gt
                            /\ generated_consts' = DictPut(consts, desc.path, "")
                            /\ IF desc.ok
                               THEN /\ files' = DictPut(written, desc_path(fop),
                                                    [kind |-> "desc", text |-> desc])
                                    /\ NextFop
                               ELSE /\ files' = DictPut(written, desc_path(fop),
                                                    [kind |-> "empty"])
                                    /\ pc' = "crash" /\ idx' = idx

Next ==
    \/ generate_descriptions
    \/ IoctlAnalysisPass_process
    \/ TypeAnalysisPass_process
    \/ PointerCyclesPass_process
    \/ PointerBoundsPass_process
    \/ dump_file

(***************************************************************************)
(* The CodeDB inputs.  Type ids: 0 char, 1 int, 2 struct R, 3 struct A,    *)
(* 4 struct B, 5 R*, 6 A*, 7 B*, 8 typedef td_t, 9 B[2], 10 enum E,        *)
(* 11 struct file_operations, 12 its slot's function pointer, 13 the       *)
(* function type, 14 union U, 15 char*.                                    *)
(***************************************************************************)
TypeEntry(id, class, str, refs, refnames, size, union) ==
    [id |-> id, class |-> class, str |-> str, refs |-> refs, refnames |-> refnames,
     size |-> size, union |-> union,
     values |-> IF class = "enum" THEN <<0, 1>> ELSE <<>>]

FieldNames(prefix, refs) == [i \in DOMAIN refs |-> prefix \o ToString(i - 1)]

\* The type table in which R, A, B have the given fields and td_t names tdref.
TypeTable(rrefs, arefs, brefs, tdref) ==
    LET e == <<
        TypeEntry(0, "builtin", "char", <<>>, <<>>, 8, FALSE),
        TypeEntry(1, "builtin", "int", <<>>, <<>>, 32, FALSE),
        TypeEntry(2, "record", "R", rrefs, FieldNames("r", rrefs), 128, FALSE),
        TypeEntry(3, "record", "A", arefs, FieldNames("a", arefs), 64, FALSE),
        TypeEntry(4, "record", "B", brefs, FieldNames("b", brefs), 64, FALSE),
        TypeEntry(5, "pointer", "*", <<2>>, <<>>, 64, FALSE),
        TypeEntry(6, "pointer", "*", <<3>>, <<>>, 64, FALSE),
        TypeEntry(7, "pointer", "*", <<4>>, <<>>, 64, FALSE),
        TypeEntry(8, "typedef", "td_t", <<tdref>>, <<>>, 64, FALSE),
        TypeEntry(9, "const_array", "[N]", <<4>>, <<>>, 128, FALSE),
        TypeEntry(10, "enum", "E", <<>>, <<>>, 32, FALSE),
        TypeEntry(11, "record", "file_operations", <<12>>, <<"unlocked_ioctl">>, 64, FALSE),
        TypeEntry(12, "pointer", "*", <<13>>, <<>>, 64, FALSE),
        TypeEntry(13, "function", "", <<>>, <<>>, 0, FALSE),
        TypeEntry(14, "record", "U", <<15, 1>>, <<"buf", "len">>, 64, TRUE),
        TypeEntry(15, "pointer", "*", <<0>>, <<>>, 64, FALSE) >>
    IN [t \in 0..(Len(e) - 1) |-> e[t + 1]]

\* Types a type holds by value: a C type never holds itself by value.
ValueRefs(T, t) ==
    IF T[t].class \in {"record", "typedef", "const_array", "incomplete_array"}
    THEN Range(T[t].refs) ELSE {}

RECURSIVE ValueClosure(_, _, _)
ValueClosure(T, S, n) ==
    IF n = 0 THEN S
    ELSE ValueClosure(T, S \cup UNION {ValueRefs(T, t) : t \in S}, n - 1)

WellFormedTypes(T) ==
    \A t \in DOMAIN T :
        t \notin ValueClosure(T, ValueRefs(T, t), Cardinality(DOMAIN T))

\* Sequences over S of length lo..hi.
SeqsOf(S, lo, hi) == UNION {[1..n -> S] : n \in lo..hi}

Case(value, label, sizeof, type_name) ==
    [value |-> value, label |-> label,
     expanded |-> [sizeof |-> sizeof, type_name |-> type_name]]

\* A function entry; `switches` switch on the names given in them.
Function(id, name, switches, callrefs, calls, call_info, derefs) ==
    [id |-> id, name |-> name,
     locals |-> <<[name |-> "file"], [name |-> "cmd"], [name |-> "arg"]>>,
     switches |-> switches, callrefs |-> callrefs, calls |-> calls,
     call_info |-> call_info, derefs |-> derefs]

\* An ioctl handler that only switches on its command parameter.
SwitchHandler(id, name, cases) ==
    Function(id, name, <<[condition |-> "cmd", cases |-> cases]>>,
             <<>>, <<>>, <<>>, <<>>)

\* A global dispatch-table instance whose slot 0 points to func_id.
FopsVar(type, var, kind, func_id) ==
    [type |-> type, members |-> (0 :> <<func_id>>), kind |-> kind, var |-> var]

\* The state right after GenerationDriver.__init__ on the given CodeDB.
InitDriver(T, F, V, G) ==
    /\ types = T
    /\ funcs = F
    /\ fopsvars = V
    /\ globals = G
    /\ fops = <<>>
    /\ idx = 0
    /\ pc = "collect"
    /\ passlog = <<>>
    /\ generated_consts = EmptyDict
    /\ generated_types = EmptyDict
    /\ files = EmptyDict

(***************************************************************************)
(* Type graphs: one handler whose commands name one or two root types,     *)
(* over every well-formed choice of the fields of R, A, B and of td_t.     *)
(***************************************************************************)
RFieldTypes == {1, 3, 4, 5, 6, 7, 8}
AFieldChoices == {<<>>, <<1>>, <<7>>, <<9>>, <<5>>}
BFieldChoices == {<<>>, <<6>>, <<10>>}
TdChoices == {2, 6}
RootChoices ==
    {<<Case(1, "CMD_R", TRUE, "struct R")>>,
     <<Case(1, "CMD_TD", TRUE, "td_t")>>,
     <<Case(1, "CMD_INT", TRUE, "int")>>,
     <<Case(1, "CMD_A", TRUE, "struct A"), Case(2, "CMD_B", TRUE, "struct B")>>}

InitTypes ==
    \E rrefs \in SeqsOf(RFieldTypes, 1, MaxFields), arefs \in AFieldChoices,
       brefs \in BFieldChoices, tdref \in TdChoices, cases \in RootChoices :
        /\ WellFormedTypes(TypeTable(rrefs, arefs, brefs, tdref))
        /\ InitDriver(TypeTable(rrefs, arefs, brefs, tdref),
                      (42 :> SwitchHandler(42, "my_ioctl", cases)),
                      <<FopsVar(11, 0, "global", 42)>>,
                      (0 :> [name |-> "my_fops"]))

SpecTypes == InitTypes /\ [][Next]_vars

(***************************************************************************)
(* User-copy callsites: one handler over struct R { char *r0; int r1; },   *)
(* struct A { int a0; } and union U, calling a user-copy function once or  *)
(* twice with every choice of argument derefs.                             *)
(***************************************************************************)
Deref(kind, offkind, offid, type, member) ==
    [kind |-> kind, offsetrefs |-> <<[kind |-> offkind, id |-> offid]>>,
     type |-> type, member |-> member]

\* The derefs of the handler, ids 0-based: 0-4 member expressions R.r0, R.r1,
\* U.buf, U.len, A.a0; 5-9 the argument derefs naming them; 10 an argument
\* naming a local; 11 the nested member expression a.r.r0 passed directly;
\* 12 an argument naming the array deref 13 of member R.r0; 14 an argument
\* naming itself; 15 an argument naming a deref that does not exist; 16 a
\* member expression without type and member lists.
HandlerDerefs ==
    << Deref("member", "local", 3, <<2>>, <<0>>),
       Deref("member", "local", 3, <<2>>, <<1>>),
       Deref("member", "local", 4, <<14>>, <<0>>),
       Deref("member", "local", 4, <<14>>, <<1>>),
       Deref("member", "local", 5, <<3>>, <<0>>),
       Deref("parm", "member", 0, <<>>, <<>>),
       Deref("parm", "member", 1, <<>>, <<>>),
       Deref("parm", "member", 2, <<>>, <<>>),
       Deref("parm", "member", 3, <<>>, <<>>),
       Deref("parm", "member", 4, <<>>, <<>>),
       Deref("parm", "local", 0, <<>>, <<>>),
       Deref("member", "member", 4, <<3, 2>>, <<0, 0>>),
       Deref("parm", "member", 13, <<>>, <<>>),
       Deref("array", "member", 0, <<>>, <<>>),
       Deref("parm", "member", 14, <<>>, <<>>),
       Deref("parm", "member", 99, <<>>, <<>>),
       Deref("member", "member", 0, <<>>, <<>>) >>

ArgDerefs == {5, 6, 7, 8, 9, 10, 11, 12, 14, 15, 16}

\* A handler switching on cmd with `cases` and calling the functions `calls`
\* with the argument derefs `args` (one triple per call).
CopyHandler(id, name, cases, calls, args) ==
    Function(id, name, <<[condition |-> "cmd", cases |-> cases]>>,
             [i \in DOMAIN calls |-> <<>>], calls,
             [i \in DOMAIN calls |-> [args |-> args[i]]], HandlerDerefs)

UserCopy(id, name) == Function(id, name, <<>>, <<>>, <<>>, <<>>, <<>>)

BoundsTypes == TypeTable(<<15, 1>>, <<1>>, <<>>, 2)

SecondCallChoices == {<<>>, <<<<7, 10, 8>>>>, <<<<10, 5, 6>>>>}

InitBounds ==
    \E a0 \in ArgDerefs, a1 \in ArgDerefs, a2 \in ArgDerefs,
       callee \in {100, 101}, second \in SecondCallChoices :
        InitDriver(BoundsTypes,
                   (42 :> CopyHandler(42, "my_ioctl",
                              <<Case(1, "CMD_R", TRUE, "struct R")>>,
                              <<callee>> \o [i \in DOMAIN second |-> 100],
                              <<<<a0, a1, a2>>>> \o second)
                    @@ 100 :> UserCopy(100, "copy_from_user")
                    @@ 101 :> UserCopy(101, "copy_to_user")),
                   <<FopsVar(11, 0, "global", 42)>>,
                   (0 :> [name |-> "my_fops"]))

SpecBounds == InitBounds /\ [][Next]_vars

(***************************************************************************)
(* Batches: up to MaxHandlers dispatch-table instances, each handler with  *)
(* its own choice of switch cases and of user-copy callsite.               *)
(***************************************************************************)
CaseChoices ==
    {<<Case(1, "FOO", TRUE, "struct R")>>,
     <<Case(1, "FOO", TRUE, "struct R"), Case(2, "FOO", TRUE, "struct R")>>,
     <<Case(1, "FOO", TRUE, "struct R"), Case(2, "BAR", TRUE, "struct R")>>,
     <<Case(1, "FOO", TRUE, "struct R"), Case(1, "FOO_", TRUE, "struct R")>>,
     <<Case(1, "FOO", TRUE, "int")>>,
     <<Case(1, "FOO", FALSE, "")>>}

\* No callsite, a well-formed one, one whose call_info lacks the size argument.
CallChoices == {<<>>, <<<<10, 5, 6>>>>, <<<<10, 5>>>>}

\* The type table of the bounds family, and one in which R holds a pointer to
\* a second record that is also called R (type-ids 2 and 3).
BatchTypeChoices ==
    {BoundsTypes, [TypeTable(<<6, 1>>, <<1>>, <<>>, 2) EXCEPT ![3].str = "R"]}

BatchHandler(i, cases, args) ==
    CopyHandler(41 + i, "ioctl_" \o ToString(i), cases,
                [k \in DOMAIN args |-> 100], args)

InitBatch ==
    \E n \in 1..MaxHandlers :
        \E cases \in [1..n -> CaseChoices], args \in [1..n -> CallChoices],
           names \in [1..n -> {"fops"}], T \in BatchTypeChoices :
            InitDriver(T,
                       [f \in {41 + i : i \in 1..n} \cup {100} |->
                           IF f = 100 THEN UserCopy(100, "copy_from_user")
                           ELSE BatchHandler(f - 41, cases[f - 41], args[f - 41])],
                       [i \in 1..n |-> FopsVar(11, i, "global", 41 + i)],
                       [i \in 1..n |-> [name |-> names[i]]])

SpecBatch == InitBatch /\ [][Next]_vars

\* Handlers by how the driver settles them: written, discarded by
\* TypeAnalysisPass, discarded by IoctlAnalysisPass, stopped by an exception
\* of PointerBoundsPass.
HandlerKinds ==
    {[cases |-> <<Case(1, "FOO", TRUE, "struct R")>>, args |-> <<<<10, 5, 6>>>>],
     [cases |-> <<Case(1, "FOO", TRUE, "int")>>, args |-> <<>>],
     [cases |-> <<Case(1, "FOO", FALSE, "")>>, args |-> <<>>],
     [cases |-> <<Case(1, "FOO", TRUE, "struct R")>>, args |-> <<<<10, 5>>>>]}

InitBatchKinds ==
    \E n \in 1..MaxHandlers :
        \E kinds \in [1..n -> HandlerKinds] :
            InitDriver(BoundsTypes,
                       [f \in {41 + i : i \in 1..n} \cup {100} |->
                           IF f = 100 THEN UserCopy(100, "copy_from_user")
                           ELSE BatchHandler(f - 41, kinds[f - 41].cases,
                                             kinds[f - 41].args)],
                       [i \in 1..n |-> FopsVar(11, i, "global", 41 + i)],
                       [i \in 1..n |-> [name |-> "fops"]])

\* The driver is one sequential loop: it takes its next step whenever it has one.
SpecBatchFair == InitBatchKinds /\ [][Next]_vars /\ WF_vars(Next)

(***************************************************************************)
(* Call chains: the handler 42 forwards cmd and arg to 43, 43 to 44, ...;  *)
(* the function at depth d may switch on cmd (case CMD_d, value d) and may *)
(* call copy_from_user with the members R.r0 and R.r<d>; the last function *)
(* may call the handler again.                                             *)
(***************************************************************************)
ChainTypes == TypeTable([i \in 1..(ChainLen + 1) |-> 1], <<1>>, <<>>, 2)

ChainDerefs(d) ==
    << Deref("member", "local", 3, <<2>>, <<0>>),
       Deref("member", "local", 3, <<2>>, <<d>>),
       Deref("parm", "member", 0, <<>>, <<>>),
       Deref("parm", "member", 1, <<>>, <<>>) >>

ForwardRefs ==
    << [type |-> "parm", id |-> 1, pos |-> 1],
       [type |-> "parm", id |-> 2, pos |-> 2] >>

\* The function at depth d of a chain of n functions.
ChainFunction(d, n, switch, copy, cyclic) ==
    LET next == IF d < n THEN <<41 + d + 1>>
                ELSE IF cyclic THEN <<42>> ELSE <<>>
        user == IF copy THEN <<100>> ELSE <<>>
    IN Function(41 + d, "fn" \o ToString(d),
                IF switch
                THEN <<[condition |-> "cmd",
                        cases |-> <<Case(d, "CMD_" \o ToString(d), TRUE, "struct R")>>]>>
                ELSE <<>>,
                [i \in DOMAIN user |-> <<>>] \o [i \in DOMAIN next |-> ForwardRefs],
                user \o next,
                [i \in DOMAIN user |-> [args |-> <<2, 2, 3>>]]
                    \o [i \in DOMAIN next |-> [args |-> <<>>]],
                ChainDerefs(d))

InitChain ==
    \E n \in 1..ChainLen, cyclic \in BOOLEAN :
        \E switch \in [1..n -> BOOLEAN], copy \in [1..n -> BOOLEAN] :
            InitDriver(ChainTypes,
                       [f \in 42..(41 + n) |->
                           ChainFunction(f - 41, n, switch[f - 41], copy[f - 41], cyclic)]
                       @@ (100 :> UserCopy(100, "copy_from_user")),
                       <<FopsVar(11, 0, "global", 42)>>,
                       (0 :> [name |-> "my_fops"]))

SpecChain == InitChain /\ [][Next]_vars

(***************************************************************************)
(* Dispatch tables: up to MaxHandlers instances, each of type              *)
(* file_operations, proc_ops or a forward declaration of file_operations,  *)
(* global or local, with a function-id the CodeDB has or lacks at member   *)
(* position 0 or 1; every instance's symbol is called fops.                *)
(***************************************************************************)
DispatchTypes ==
    BoundsTypes
    @@ (16 :> TypeEntry(16, "record", "proc_ops", <<12>>, <<"proc_ioctl">>, 64, FALSE))
    @@ (17 :> TypeEntry(17, "record_forward", "file_operations", <<>>, <<>>, 0, FALSE))

\* A dispatch-table instance whose member `slot` points to func_id.
DispatchVar(type, var, kind, slot, func_id) ==
    [type |-> type, members |-> (slot :> <<func_id>>), kind |-> kind, var |-> var]

\* A function-id no function entry has.
MissingFunction == 77

InitDispatch ==
    \E n \in 1..MaxHandlers :
        \E type \in [1..n -> {11, 16, 17}], kind \in [1..n -> {"global", "local"}],
           slot \in [1..n -> {0, 1}], present \in [1..n -> BOOLEAN] :
            InitDriver(DispatchTypes,
                       [f \in {41 + i : i \in 1..n} |->
                           SwitchHandler(f, "ioctl_" \o ToString(f - 41),
                                         <<Case(1, "FOO", TRUE, "struct R")>>)],
                       [i \in 1..n |->
                           DispatchVar(type[i], i, kind[i], slot[i],
                                       IF present[i] THEN 41 + i ELSE MissingFunction)],
                       [i \in 1..n |-> [name |-> "fops"]])

SpecDispatch == InitDispatch /\ [][Next]_vars

(***************************************************************************)
(* Sizes: one handler whose root R holds an array of char and an int, over *)
(* choices of the array's class and total size, of the size of char and of *)
(* the size of int (sizes in bits, as the CodeDB gives them).              *)
(***************************************************************************)
ArraySizes == {0, 8, 24, 32, 64}
ElementSizes == {0, 8, 32}
BuiltinSizes == {32, 64, 72, 100, 128}

SizesTypes(aclass, asize, esize, bsize) ==
    [TypeTable(<<9, 1>>, <<>>, <<>>, 2) EXCEPT
        ![0] = TypeEntry(0, "builtin", "char", <<>>, <<>>, esize, FALSE),
        ![1] = TypeEntry(1, "builtin", "int", <<>>, <<>>, bsize, FALSE),
        ![9] = TypeEntry(9, aclass, "[N]", <<0>>, <<>>, asize, FALSE)]

InitSizes ==
    \E aclass \in {"const_array", "incomplete_array"}, asize \in ArraySizes,
       esize \in ElementSizes, bsize \in BuiltinSizes :
        InitDriver(SizesTypes(aclass, asize, esize, bsize),
                   (42 :> SwitchHandler(42, "my_ioctl",
                              <<Case(1, "CMD_R", TRUE, "struct R")>>)),
                   <<FopsVar(11, 0, "global", 42)>>,
                   (0 :> [name |-> "my_fops"]))

SpecSizes == InitSizes /\ [][Next]_vars

(***************************************************************************)
(* Pointer cycles: one handler over struct R, A, B linked by pointers and  *)
(* by td_t, a typedef of pointer-to-R or pointer-to-A, with one or two     *)
(* command roots and at most one user-copy callsite on the members of A.   *)
(***************************************************************************)
CycleRFields == {<<6>>, <<8>>, <<6, 1>>}
CycleAFields == {<<5, 1>>, <<8, 1>>, <<5, 7>>, <<1, 5>>}
CycleBFields == {<<6>>, <<1>>}
CycleTdChoices == {5, 6}
CycleRoots ==
    {<<Case(1, "CMD_R", TRUE, "struct R")>>,
     <<Case(1, "CMD_A", TRUE, "struct A")>>,
     <<Case(1, "CMD_R", TRUE, "struct R"), Case(2, "CMD_B", TRUE, "struct B")>>}

\* Derefs 0-based: 0, 1 the member expressions A.a0, A.a1; 2, 3 the
\* argument derefs naming them.
CycleDerefs ==
    << Deref("member", "local", 3, <<3>>, <<0>>),
       Deref("member", "local", 3, <<3>>, <<1>>),
       Deref("parm", "member", 0, <<>>, <<>>),
       Deref("parm", "member", 1, <<>>, <<>>) >>

\* No callsite, one binding a0 to a1, one binding a1 to a0.
CycleCalls == {<<>>, <<<<3, 3, 2>>>>, <<<<2, 2, 3>>>>}

CycleHandler(cases, args) ==
    Function(42, "my_ioctl", <<[condition |-> "cmd", cases |-> cases]>>,
             [i \in DOMAIN args |-> <<>>], [i \in DOMAIN args |-> 100],
             [i \in DOMAIN args |-> [args |-> args[i]]], CycleDerefs)

InitCycles ==
    \E rrefs \in CycleRFields, arefs \in CycleAFields, brefs \in CycleBFields,
       tdref \in CycleTdChoices, cases \in CycleRoots, args \in CycleCalls :
        InitDriver(TypeTable(rrefs, arefs, brefs, tdref),
                   (42 :> CycleHandler(cases, args))
                   @@ (100 :> UserCopy(100, "copy_from_user")),
                   <<FopsVar(11, 0, "global", 42)>>,
                   (0 :> [name |-> "my_fops"]))

SpecCycles == InitCycles /\ [][Next]_vars

(***************************************************************************)
(* Command roots: one handler with one or two sizeof cases over a record   *)
(* with fields (R), a record without fields that also has a forward        *)
(* declaration of lower id (B), an enum (E), the builtins char (id 0) and  *)
(* int, a typedef, a type that is only forward-declared (F) and a name no  *)
(* type entry has.                                                         *)
(***************************************************************************)
RootsTypes ==
    [TypeTable(<<1>>, <<1>>, <<>>, 2) EXCEPT
        ![3] = TypeEntry(3, "record_forward", "B", <<>>, <<>>, 0, FALSE)]
    @@ (16 :> TypeEntry(16, "record_forward", "F", <<>>, <<>>, 0, FALSE))

RootTypeNames ==
    {"struct R", "struct B", "enum E", "char", "int", "td_t", "struct F", "struct Z"}

RootsCases(names) ==
    [k \in DOMAIN names |-> Case(k, "CMD_" \o ToString(k), TRUE, names[k])]

InitRoots ==
    \E names \in SeqsOf(RootTypeNames, 1, 2) :
        InitDriver(RootsTypes,
                   (42 :> SwitchHandler(42, "my_ioctl", RootsCases(names))),
                   <<FopsVar(11, 0, "global", 42)>>,
                   (0 :> [name |-> "my_fops"]))

SpecRoots == InitRoots /\ [][Next]_vars

(***************************************************************************)
(* Forwarding: the handler 42 calls `real` (43) with four arguments; cmd   *)
(* and arg are passed at any position or not at all, and `real` switches   *)
(* on any of its locals file, cmd, arg, each switch with its own case.     *)
(***************************************************************************)
ForwardPositions == {-1, 0, 1, 2, 3}

\* The callref of the call: one entry per argument position.
ForwardCallref(cmdpos, argpos) ==
    [k \in 1..4 |->
        IF k - 1 = cmdpos THEN [type |-> "parm", id |-> 1, pos |-> k - 1]
        ELSE IF k - 1 = argpos THEN [type |-> "parm", id |-> 2, pos |-> k - 1]
        ELSE [type |-> "local", id |-> 3, pos |-> k - 1]]

SwitchOn(condition, value) ==
    [condition |-> condition,
     cases |-> <<Case(value, "ON_" \o condition, TRUE, "struct R")>>]

ForwardTarget(conditions) ==
    Function(43, "real",
             (IF "file" \in conditions THEN <<SwitchOn("file", 1)>> ELSE <<>>)
             \o (IF "cmd" \in conditions THEN <<SwitchOn("cmd", 2)>> ELSE <<>>)
             \o (IF "arg" \in conditions THEN <<SwitchOn("arg", 3)>> ELSE <<>>),
             <<>>, <<>>, <<>>, <<>>)

ForwardEntry(own, cmdpos, argpos) ==
    Function(42, "my_ioctl",
             IF own THEN <<[condition |-> "cmd",
                            cases |-> <<Case(4, "ENTRY", TRUE, "struct R")>>]>>
             ELSE <<>>,
             <<ForwardCallref(cmdpos, argpos)>>, <<43>>, <<[args |-> <<>>]>>, <<>>)

InitForward ==
    \E own \in BOOLEAN, cmdpos \in ForwardPositions, argpos \in ForwardPositions,
       conditions \in SUBSET {"file", "cmd", "arg"} :
        /\ cmdpos = argpos => cmdpos = -1
        /\ InitDriver(BoundsTypes,
                      (42 :> ForwardEntry(own, cmdpos, argpos))
                      @@ (43 :> ForwardTarget(conditions)),
                      <<FopsVar(11, 0, "global", 42)>>,
                      (0 :> [name |-> "my_fops"]))

SpecForward == InitForward /\ [][Next]_vars

(***************************************************************************)
(* Properties                                                              *)
(***************************************************************************)
\* The driver is done with handler h: it was discarded or dumped.
Finished(h) == h \in DOMAIN fops /\ h < idx

\* Both output files of handler h exist and hold their text.
Written(h) ==
    /\ const_path(fops[h]) \in DOMAIN files
    /\ desc_path(fops[h]) \in DOMAIN files
    /\ files[desc_path(fops[h])].kind = "desc"

PassOutcomes(h, name) ==
    {passlog[h][i][2] : i \in {i \in DOMAIN passlog[h] : passlog[h][i][1] = name}}

Description(h) == files[desc_path(fops[h])].text
ConstLines(h) == files[const_path(fops[h])].lines

\* Types reachable from t by following refs of every class of type.
RECURSIVE RefClosure(_, _)
RefClosure(S, n) ==
    IF n = 0 THEN S
    ELSE RefClosure(S \cup UNION {Range(types[t].refs) : t \in S}, n - 1)

RefReach(t) == RefClosure({t}, Cardinality(DOMAIN types))

\* The handler's commands all have one root type, a builtin without refs.
MinimalIoctl(h) ==
    /\ Cardinality(fops[h].commands) = 1
    /\ \A c \in fops[h].commands :
          types[c[3]].class = "builtin" /\ types[c[3]].refs = <<>>
          /\ types[c[3]].size = 32

\* C2: a handler whose only command has a builtin root without field
\* references is emitted: one constant line, one ioctl declaration whose
\* argument is ptr[inout, int32].
C2_MinimalIoctlEmitted ==
    \A h \in DOMAIN fops :
        (Finished(h) /\ MinimalIoctl(h)) =>
            /\ Written(h)
            /\ Len(ConstLines(h)) = 1
            /\ Len(Description(h).ioctls) = 1
            /\ Description(h).ioctls[1].arg = "ptr[inout, int32]"

\* C4: after TypeAnalysisPass.process, deps holds no typedef and no pointer.
C4_DepsNoTypedefNoPointer ==
    \A h \in DOMAIN fops :
        "deps" \in fops[h].has =>
            \A d \in fops[h].deps : types[d].class \notin {"typedef", "pointer"}

\* Type t, after typedef collapse, has at least one ref.
has_fields(t) == Len(types[detypedef(t)].refs) > 0

\* C5 as claimed: every command root t is in deps iff has_fields(t).
C5_RootInDepsIffFields ==
    \A h \in DOMAIN fops :
        "deps" \in fops[h].has =>
            \A c \in fops[h].commands :
                (c[3] \in fops[h].deps) <=> has_fields(c[3])

\* C5 as amended: for every command root t, the typedef-collapsed root
\* detypedef(t) is in deps iff has_fields(t).
C5_CollapsedRootInDepsIffFields ==
    \A h \in DOMAIN fops :
        "deps" \in fops[h].has =>
            \A c \in fops[h].commands :
                (detypedef(c[3]) \in fops[h].deps) <=> has_fields(c[3])

\* A typedef root naming a record with fields went through the type pass.
C5_Witness ==
    \E h \in DOMAIN fops :
        /\ "deps" \in fops[h].has
        /\ \E c \in fops[h].commands :
              /\ types[c[3]].class = "typedef"
              /\ has_fields(c[3])
              /\ types[detypedef(c[3])].class = "record"

\* C6: every record reachable from a command root through refs is in deps
\* iff it has at least one ref.
C6_ClosureComplete ==
    \A h \in DOMAIN fops :
        "deps" \in fops[h].has =>
            \A c \in fops[h].commands :
                \A u \in RefReach(detypedef(c[3])) :
                    types[u].class = "record" =>
                        ((u \in fops[h].deps) <=> Len(types[u].refs) > 0)

\* The type pass ran on a root that reaches, on a cyclic graph, a record with
\* fields behind a pointer and a record behind an array.
C6_Witness ==
    \E h \in DOMAIN fops :
        /\ "deps" \in fops[h].has
        /\ \E c \in fops[h].commands :
              /\ types[c[3]].class = "typedef"
              /\ 2 \in RefReach(2)
              /\ {2, 3, 4, 9} \subseteq RefReach(detypedef(c[3]))
              /\ 3 \notin Range(types[2].refs)
              /\ Len(types[4].refs) > 0
              /\ {2, 3, 4} \subseteq fops[h].deps

\* Record t has as field 0 a pointer to t itself.
SelfPointerAtZero(t) ==
    /\ types[t].class = "record"
    /\ Len(types[t].refs) > 0
    /\ types[types[t].refs[1]].class = "pointer"
    /\ types[types[t].refs[1]].refs[1] = t

\* C7: for a root record whose field 0 points to the record itself the
\* cycles pass records (t, 0) under t, and the emitted definition renders
\* field 0 as ptr[inout, <name>, opt].
C7_SelfPointerMarked ==
    \A h \in DOMAIN fops :
        \A c \in fops[h].commands :
            SelfPointerAtZero(c[3]) =>
                /\ "pointer_cycles" \in fops[h].has =>
                      /\ c[3] \in DOMAIN fops[h].pointer_cycles
                      /\ fops[h].pointer_cycles[c[3]][1] = PointerCycle(c[3], 0)
                /\ (Finished(h) /\ Written(h)) =>
                      \E i \in DOMAIN Description(h).definitions :
                          LET d == Description(h).definitions[i]
                          IN /\ d.name = types[c[3]].str
                             /\ d.fields[1].type
                                  = "ptr[inout, " \o types[c[3]].str \o ", opt]"

\* The records the cycle traversal from root visits, each with the chain of
\* its ancestors in the traversal (itself last).
RECURSIVE DfsChains(_, _, _)
RECURSIVE DfsChainsRefs(_, _, _, _)
DfsChains(type_id, chain, acc) ==
    IF type_id \in acc.traversed \/ types[type_id].class # "record" THEN acc
    ELSE DfsChainsRefs(types[type_id].refs, 1, Append(chain, type_id),
             [traversed |-> acc.traversed \cup {type_id},
              chains |-> DictPut(acc.chains, type_id, Append(chain, type_id))])

DfsChainsRefs(refs, i, chain, acc) ==
    IF i > Len(refs) THEN acc
    ELSE IF refs[i] \in acc.traversed THEN DfsChainsRefs(refs, i + 1, chain, acc)
    ELSE DfsChainsRefs(refs, i + 1, chain,
                       DfsChains(dereference(refs[i]), chain, acc))

AncestorChains(root) ==
    DfsChains(detypedef(root), <<>>, [traversed |-> {}, chains |-> EmptyDict]).chains

\* C8: every entry (target, i) of pointer_cycles[T] names a pointer field i
\* of T whose pointee is target, and target lies on the chain of ancestors of
\* T in the traversal from some command root.
C8_CycleTargetsAreAncestors ==
    \A h \in DOMAIN fops :
        "pointer_cycles" \in fops[h].has =>
            \A T \in DOMAIN fops[h].pointer_cycles :
                \A k \in DOMAIN fops[h].pointer_cycles[T] :
                    LET e == fops[h].pointer_cycles[T][k]
                        ref == types[T].refs[e.member_position + 1]
                    IN /\ types[ref].class = "pointer"
                       /\ dereference(ref) = e.cycled_id
                       /\ \E c \in fops[h].commands :
                             /\ T \in DOMAIN AncestorChains(c[3])
                             /\ e.cycled_id \in Range(AncestorChains(c[3])[T])

\* C1: the two files of a handler are written iff IoctlAnalysisPass and
\* TypeAnalysisPass both returned true for it, whatever the later passes
\* returned; after a false return of either, no later pass runs on it.
C1_WrittenIffFirstTwoPasses ==
    \A h \in DOMAIN fops :
        LET both == /\ PassOutcomes(h, "IoctlAnalysisPass") = {"true"}
                    /\ PassOutcomes(h, "TypeAnalysisPass") = {"true"}
        IN /\ const_path(fops[h]) \in DOMAIN files => both
           /\ desc_path(fops[h]) \in DOMAIN files => both
           /\ Finished(h) => (Written(h) <=> both)
           /\ "false" \in PassOutcomes(h, "IoctlAnalysisPass") =>
                 /\ Len(passlog[h]) = 1
                 /\ fops[h].has = {"commands"}
           /\ "false" \in PassOutcomes(h, "TypeAnalysisPass") =>
                 /\ Len(passlog[h]) = 2
                 /\ fops[h].has = {"commands", "deps"}

\* A batch in which one handler was written and another was discarded by
\* one of the first two passes.
C1_Witness ==
    /\ \E h \in DOMAIN fops : Finished(h) /\ Written(h)
    /\ \E h \in DOMAIN fops :
          /\ Finished(h)
          /\ \/ "false" \in PassOutcomes(h, "IoctlAnalysisPass")
             \/ "false" \in PassOutcomes(h, "TypeAnalysisPass")

ConstFiles == {f \in DOMAIN files : files[f].kind = "const"}

\* C3: across all constants files of the batch, constant names are pairwise
\* distinct.
C3_ConstNamesDistinct ==
    \A f \in ConstFiles, g \in ConstFiles :
        \A i \in DOMAIN files[f].lines, j \in DOMAIN files[g].lines :
            (f # g \/ i # j) => files[f].lines[i].name # files[g].lines[j].name

\* The member deref an argument deref names: follow offsetrefs[0].id until a
\* deref of kind member; -1 if there is none within n steps.
RECURSIVE MemberOf(_, _, _)
MemberOf(derefs, d, n) ==
    IF d + 1 \notin DOMAIN derefs THEN -1
    ELSE IF derefs[d + 1].kind = "member" THEN d
    ELSE IF n = 0 \/ derefs[d + 1].offsetrefs = <<>> THEN -1
    ELSE MemberOf(derefs, derefs[d + 1].offsetrefs[1].id, n - 1)

Last(s) == s[Len(s)]

\* Callsite ci of function f, read with model m, passes two member derefs of
\* the same parent record t, which is not a union, and they are members
\* `binding` and `bound` of t.
DerivedFrom(f, ci, m, t, binding, bound) ==
    LET derefs == funcs[f].derefs
        args == funcs[f].call_info[ci].args
        bi == MemberOf(derefs, args[m.binding + 1], Len(derefs))
        bo == MemberOf(derefs, args[m.bound + 1], Len(derefs))
    IN /\ funcs[funcs[f].calls[ci]].name \in DOMAIN BINDING_CALLS
       /\ m.binding + 1 \in DOMAIN args /\ m.bound + 1 \in DOMAIN args
       /\ bi >= 0 /\ bo >= 0
       /\ derefs[bi + 1].type # <<>> /\ derefs[bo + 1].type # <<>>
       /\ derefs[bi + 1].member # <<>> /\ derefs[bo + 1].member # <<>>
       /\ Last(derefs[bi + 1].type) = t
       /\ Last(derefs[bo + 1].type) = t
       /\ ~(types[t].class = "record" /\ types[t].union)
       /\ Last(derefs[bi + 1].member) = binding
       /\ Last(derefs[bo + 1].member) = bound

UserCopyModels == {[binding |-> 2, bound |-> 0], [binding |-> 2, bound |-> 1]}

\* C9: every MemberBounds in pointer_bounds comes from a user-copy callsite
\* whose two member derefs have the same parent record, equal to its
\* type_id, and that parent is not a union.
C9_BoundsSameNonUnionParent ==
    \A h \in DOMAIN fops :
        "pointer_bounds" \in fops[h].has =>
            \A t \in DOMAIN fops[h].pointer_bounds :
                \A mb \in fops[h].pointer_bounds[t] :
                    /\ mb.type_id = t
                    /\ \E f \in DOMAIN funcs :
                          \E ci \in DOMAIN funcs[f].call_info, m \in UserCopyModels :
                              DerivedFrom(f, ci, m, t, mb.binding_member,
                                          mb.bound_member)

\* The bounds pass ran on a handler with one callsite passing two members of
\* R, which it recorded, and one passing two members of the union U.
C9_Witness ==
    \E h \in DOMAIN fops :
        /\ "pointer_bounds" \in fops[h].has
        /\ fops[h].pointer_bounds = (2 :> {MemberBounds(2, 1, 0)})
        /\ LET f == funcs[fops[h].syscall_id]
           IN /\ Len(f.call_info) = 2
              /\ f.call_info[1].args = <<9, 5, 6>>
              /\ f.call_info[2].args = <<7, 10, 8>>

\* C10: no MemberBounds binds a member to itself, and no emitted field is
\* declared as the length of itself.
C10_BoundMembersDistinct ==
    \A h \in DOMAIN fops :
        /\ "pointer_bounds" \in fops[h].has =>
              \A t \in DOMAIN fops[h].pointer_bounds :
                  \A mb \in fops[h].pointer_bounds[t] :
                      mb.binding_member # mb.bound_member
        /\ (Finished(h) /\ Written(h)) =>
              \A k \in DOMAIN Description(h).definitions :
                  LET d == Description(h).definitions[k]
                  IN \A i \in DOMAIN d.fields :
                        ~StartsWith(d.fields[i].type,
                                    "len[" \o d.fields[i].name \o ", ")

\* C11: PointerBoundsPass.process never leaves with an exception: on no
\* handler does the driver see the bounds pass raise.
C11_BoundsPassNeverRaises ==
    \A h \in DOMAIN fops :
        /\ "raise" \notin PassOutcomes(h, "PointerBoundsPass")
        /\ (pc = "exit" /\ h = idx) =>
              passlog[h][Len(passlog[h])][1] # "PointerBoundsPass"

\* C13: the passes terminate on every finite CodeDB: the driver is never
\* inside a pass that does not return.
C13_PassesTerminate == pc # "hang"

\* The function at depth d of the chain exists and has a switch on cmd.
SwitchAt(d) == 41 + d \in DOMAIN funcs /\ funcs[41 + d].switches # <<>>

\* The function at depth d of the chain exists and calls a user-copy function.
CopyAt(d) == 41 + d \in DOMAIN funcs /\ 100 \in Range(funcs[41 + d].calls)

\* C12: commands come only from switches at most 3 functions deep and
\* bounds only from user-copy callsites at most 4 functions deep, counting
\* the handler as 1; a switch or callsite one level deeper adds nothing.
C12_DepthBounds ==
    \A h \in DOMAIN fops :
        /\ "commands" \in fops[h].has =>
              \A c \in fops[h].commands : c[2] \in 1..3 /\ SwitchAt(c[2])
        /\ "pointer_bounds" \in fops[h].has =>
              \A t \in DOMAIN fops[h].pointer_bounds :
                  \A mb \in fops[h].pointer_bounds[t] :
                      mb.binding_member \in 1..4 /\ CopyAt(mb.binding_member)

\* Both passes ran on a chain with a switch and a user-copy callsite at every
\* depth up to 5: the switches of depth 1-3 and the callsite of depth 4 left
\* their marks.
C12_Witness ==
    \E h \in DOMAIN fops :
        /\ \A d \in 1..5 : SwitchAt(d) /\ CopyAt(d)
        /\ "pointer_bounds" \in fops[h].has
        /\ {c[2] : c \in fops[h].commands} = 1..3
        /\ MemberBounds(2, 4, 0) \in fops[h].pointer_bounds[2]

DescFiles == {f \in DOMAIN files : files[f].kind = "desc"}

\* C14: across all description files of the batch, the names of the emitted
\* type definitions are pairwise distinct.
C14_TypeNamesDistinct ==
    \A f \in DescFiles, g \in DescFiles :
        \A i \in DOMAIN files[f].text.definitions,
           j \in DOMAIN files[g].text.definitions :
            (f # g \/ i # j) =>
                files[f].text.definitions[i].name # files[g].text.definitions[j].name

\* C15: the handler records of one batch have pairwise distinct names, and
\* no create-exclusive write hits a file the batch already wrote.
C15_HandlerNamesDistinct ==
    /\ \A i \in DOMAIN fops, j \in DOMAIN fops :
          i # j => fops[i].name # fops[j].name
    /\ pc # "crash"

\* The function-ids collect_fops(X, S) has to return: those at the position
\* of S in refnames of the global instances whose type is a non-forward
\* record named X.
ExpectedHandlers(X, S) ==
    {fopsvars[i].members[k][1] :
        <<i, k>> \in {p \in (DOMAIN fopsvars) \X {0, 1} :
            LET v == fopsvars[p[1]]
            IN /\ v.kind = "global"
               /\ types[v.type].class = "record"
               /\ types[v.type].str = X
               /\ p[2] \in DOMAIN v.members
               /\ p[2] + 1 \in DOMAIN types[v.type].refnames
               /\ types[v.type].refnames[p[2] + 1] = S
               /\ v.members[p[2]][1] \in DOMAIN funcs}}

\* C16: collect_fops(X, S) returns exactly one record per qualifying
\* instance, with its function-id as syscall_id, and none for an instance
\* that is not global; the driver's handler list is their concatenation.
C16_CollectedHandlers ==
    /\ \A k \in DOMAIN SUPPORTED_SYSCALLS :
          LET X == SUPPORTED_SYSCALLS[k][1]
              S == SUPPORTED_SYSCALLS[k][2]
              got == collect_fops(X, S)
          IN /\ {got[i].syscall_id : i \in DOMAIN got} = ExpectedHandlers(X, S)
             /\ Len(got) = Cardinality(ExpectedHandlers(X, S))
    /\ pc # "collect" =>
          {fops[h].syscall_id : h \in DOMAIN fops}
              = UNION {ExpectedHandlers(SUPPORTED_SYSCALLS[k][1], SUPPORTED_SYSCALLS[k][2]) :
                          k \in DOMAIN SUPPORTED_SYSCALLS}

\* The collection ran on a CodeDB with a qualifying instance, which it
\* returned, and a local instance with the same slot filled, which it left out.
C16_Witness ==
    /\ pc # "collect"
    /\ Len(fops) = 1
    /\ \E i \in DOMAIN fopsvars, j \in DOMAIN fopsvars :
          /\ fopsvars[i].kind = "global" /\ fopsvars[j].kind = "local"
          /\ fopsvars[i].type = 11 /\ fopsvars[j].type = 11
          /\ 0 \in DOMAIN fopsvars[i].members /\ 0 \in DOMAIN fopsvars[j].members
          /\ fopsvars[i].members[0][1] \in DOMAIN funcs
          /\ fopsvars[j].members[0][1] \in DOMAIN funcs
          /\ fops[1].syscall_id = fopsvars[i].members[0][1]

\* Some pass raised an exception while it processed handler h.
Raised(h) == \E i \in DOMAIN passlog[h] : passlog[h][i][2] = "raise"

NoFileOf(h) ==
    /\ const_path(fops[h]) \notin DOMAIN files
    /\ desc_path(fops[h]) \notin DOMAIN files

\* C17: once a pass raised on handler h the batch has stopped there: no
\* file exists for h or for a later handler, no pass ran on a later
\* handler, and the files of the earlier handlers are in place.
C17_RaiseStopsBatch ==
    \A h \in DOMAIN fops :
        Raised(h) =>
            /\ pc = "exit" /\ idx = h
            /\ ~ENABLED Next
            /\ \A g \in DOMAIN fops : g >= h => NoFileOf(g)
            /\ \A g \in DOMAIN fops : g > h => passlog[g] = <<>>
            /\ \A g \in DOMAIN fops :
                  (/\ g < h
                   /\ PassOutcomes(g, "IoctlAnalysisPass") = {"true"}
                   /\ PassOutcomes(g, "TypeAnalysisPass") = {"true"}) => Written(g)

\* A pass raised on the second handler after the first one was written.
C17_Witness ==
    /\ Len(fops) >= 2
    /\ Raised(2)
    /\ Written(1)

\* Handler h ended discarded by one of the first two passes, or written.
Settled(h) ==
    /\ Finished(h)
    /\ \/ Written(h)
       \/ /\ NoFileOf(h)
          /\ \/ "false" \in PassOutcomes(h, "IoctlAnalysisPass")
             \/ "false" \in PassOutcomes(h, "TypeAnalysisPass")

C19_OutputDetermined ==
    (pc = "dump_file" /\ const_path(fops[idx]) \notin DOMAIN files) =>
        LET commands == rename_already_used_consts(generated_consts,
                                                   fops[idx].commands)
            fop == [fops[idx] EXCEPT !.commands = commands]
            named == {d \in fop.deps : IsAssigned(generated_types, d)}
            text(o, d, b) ==
                generate_description(RecordConsts(generated_consts, o, 1),
                                     generated_types, fop, o, d, b)
        IN \A o1 \in Orders(commands), o2 \in Orders(commands) :
              /\ generate_const_file(o1) = generate_const_file(o2)
              /\ \A d1 \in Orders(named), d2 \in Orders(named) :
                    \A b1 \in BoundOrders(fop.pointer_bounds),
                       b2 \in BoundOrders(fop.pointer_bounds) :
                        text(o1, d1, b1) = text(o2, d2, b2)

\* The rendered texts of a description: field types and ioctl arguments.
RenderedTypes(f) ==
    {files[f].text.ioctls[i].arg : i \in DOMAIN files[f].text.ioctls}
    \cup UNION {{files[f].text.definitions[k].fields[i].type :
                    i \in DOMAIN files[f].text.definitions[k].fields} :
                k \in DOMAIN files[f].text.definitions}

\* C20: no emitted array declaration has element count 0.
C20_NoZeroSizedArray ==
    \A f \in DescFiles :
        \A t \in RenderedTypes(f) : FindFrom(t, ", 0]", 1) = 0

\* A description was written for a record holding an array whose total size
\* is smaller than its element size: it is rendered with count 1.
C20_Witness ==
    /\ DescFiles # {}
    /\ types[9].class \in {"const_array", "incomplete_array"}
    /\ types[9].size < types[0].size
    /\ \E f \in DescFiles : "array[int32, 1]" \in RenderedTypes(f)

\* The function at depth d of the chain is the only one with a user-copy call.
OnlyCopyAt(d) == CopyAt(d) /\ \A e \in 1..ChainLen : e # d => ~CopyAt(e)

\* The bound of the callsite at depth d is in the handler's pointer_bounds.
BoundRecorded(h, d) ==
    /\ 2 \in DOMAIN fops[h].pointer_bounds
    /\ MemberBounds(2, d, 0) \in fops[h].pointer_bounds[2]

\* C21: a qualifying user-copy callsite in a function at most 4 functions
\* deep in the call chain is recorded, also when the functions before it on
\* the chain call no user-copy function.
C21_ReachableCallsiteRecorded ==
    \A h \in DOMAIN fops :
        "pointer_bounds" \in fops[h].has =>
            \A d \in 1..BoundsMaxDepth : OnlyCopyAt(d) => BoundRecorded(h, d)

\* C29: when every function down to depth d has a qualifying callsite, all
\* visited, the bound of each of them is in the final pointer_bounds.
C29_MergeKeepsAllBounds ==
    \A h \in DOMAIN fops :
        "pointer_bounds" \in fops[h].has =>
            \A d \in 1..BoundsMaxDepth :
                (\A e \in 1..d : CopyAt(e)) => \A e \in 1..d : BoundRecorded(h, e)

\* Field i (1-based) of record T targets, after typedef and pointer
\* collapse, a proper ancestor of T in the traversal from root.
TargetsAncestor(root, T, i) ==
    LET chain == AncestorChains(root)[T]
    IN /\ dereference(types[T].refs[i]) # T
       /\ dereference(types[T].refs[i]) \in Range(chain)

\* C22: for a handler with one command root, every field of a visited
\* record that targets a proper ancestor has exactly one entry
\* PointerCycle(target, field index) under its record.
C22_AncestorFieldsRecorded ==
    \A h \in DOMAIN fops :
        ("pointer_cycles" \in fops[h].has /\ Cardinality(fops[h].commands) = 1) =>
            \A c \in fops[h].commands :
                \A T \in DOMAIN AncestorChains(c[3]) :
                    \A i \in DOMAIN types[T].refs :
                        TargetsAncestor(c[3], T, i) =>
                            /\ T \in DOMAIN fops[h].pointer_cycles
                            /\ Cardinality(
                                 {k \in DOMAIN fops[h].pointer_cycles[T] :
                                     fops[h].pointer_cycles[T][k]
                                       = PointerCycle(dereference(types[T].refs[i]),
                                                      i - 1)}) = 1

\* C23: in a written description every field with a recorded cycle entry,
\* of a record that is in deps, is rendered with the opt flag, whatever
\* bounds the record has.
C23_CycleFieldsOptional ==
    \A h \in DOMAIN fops :
        (Finished(h) /\ Written(h)) =>
            \A T \in DOMAIN fops[h].pointer_cycles \cap fops[h].deps :
                \A k \in DOMAIN fops[h].pointer_cycles[T] :
                    \A i \in DOMAIN Description(h).definitions :
                        LET d == Description(h).definitions[i]
                            p == fops[h].pointer_cycles[T][k].member_position + 1
                        IN d.name = types[T].str =>
                              /\ p \in DOMAIN d.fields
                              /\ StartsWith(d.fields[p].type, "ptr[inout, ")
                              /\ EndsWith(d.fields[p].type, ", opt]")

\* C30: every cycle entry found from a command root is in the handler's
\* pointer_cycles, whatever the order in which the roots were processed.
C30_CyclesOfAllRoots ==
    \A h \in DOMAIN fops :
        "pointer_cycles" \in fops[h].has =>
            \A c \in fops[h].commands :
                \A T \in DOMAIN analyze_pointer_cycles(c[3]) :
                    /\ T \in DOMAIN fops[h].pointer_cycles
                    /\ Range(analyze_pointer_cycles(c[3])[T])
                          \subseteq Range(fops[h].pointer_cycles[T])

\* C24: a written description has one ioctl declaration per command, as
\* many as the constants file has lines.
C24_OneIoctlPerCommand ==
    \A h \in DOMAIN fops :
        (Finished(h) /\ Written(h)) =>
            /\ Len(Description(h).ioctls) = Cardinality(fops[h].commands)
            /\ Len(Description(h).ioctls) = Len(ConstLines(h))

\* C25: a written description declares, for every command whose root is an
\* enum, an ioctl whose argument is flags[<name>, int32].
C25_EnumRootDeclared ==
    \A h \in DOMAIN fops :
        (Finished(h) /\ Written(h)) =>
            \A c \in fops[h].commands :
                types[c[3]].class = "enum" =>
                    \E i \in DOMAIN Description(h).ioctls :
                        /\ Description(h).ioctls[i].cmd
                             = "const[" \o c[1] \o "_syzdescriptor]"
                        /\ FindFrom(Description(h).ioctls[i].arg,
                                    "flags[" \o types[c[3]].str \o ", int32]", 1) # 0

\* The non-forward type entries called as the case's type name.
EntriesNamed(type_name) ==
    {t \in DOMAIN types : /\ types[t].str = strip_type(type_name)[1]
                          /\ types[t].class \notin FORWARD_DECLARED_TYPES}

\* C26: commands holds (label, value, first non-forward entry) for every
\* sizeof case of the handler's switch that has such an entry, nothing for
\* the other cases, and the pass succeeds iff commands is not empty.
C26_CommandsOfCases ==
    \A h \in DOMAIN fops :
        "commands" \in fops[h].has =>
            LET cases == Range(funcs[fops[h].syscall_id].switches[1].cases)
                expected ==
                    {<<c.label, c.value,
                       CHOOSE t \in EntriesNamed(c.expanded.type_name) :
                           \A u \in EntriesNamed(c.expanded.type_name) : t <= u>> :
                     c \in {c \in cases : /\ c.expanded.sizeof
                                          /\ EntriesNamed(c.expanded.type_name) # {}}}
            IN /\ fops[h].commands = expected
               /\ PassOutcomes(h, "IoctlAnalysisPass")
                    = {IF expected # {} THEN "true" ELSE "false"}

\* The position at which the entry passes its parameter id, -1 if nowhere.
PassedAt(id) ==
    LET callref == funcs[42].callrefs[1]
        at == {k \in DOMAIN callref : callref[k].type = "parm" /\ callref[k].id = id}
    IN IF at = {} THEN -1 ELSE callref[CHOOSE k \in at : TRUE].pos

\* The case labels of the switches of `real` on its local at index p.
LabelsOn(p) ==
    IF p + 1 \notin DOMAIN funcs[43].locals THEN {}
    ELSE {funcs[43].switches[k].cases[1].label :
             k \in {k \in DOMAIN funcs[43].switches :
                       funcs[43].switches[k].condition = funcs[43].locals[p + 1].name}}

\* C27: the commands harvested from the callee are those of its switches on
\* the local at the position where the entry passes cmd, provided the call
\* passes both cmd and arg; otherwise the callee contributes nothing.
C27_ForwardedCommandIndex ==
    \A h \in DOMAIN fops :
        "commands" \in fops[h].has =>
            {c[1] : c \in fops[h].commands} \ {"ENTRY"}
              = IF PassedAt(1) >= 0 /\ PassedAt(2) >= 0 THEN LabelsOn(PassedAt(1))
                ELSE {}

\* The entry passes cmd as the first argument and arg as well; the callee
\* switches on all three of its locals and only the case of the switch on
\* `file` is harvested.
C27_Witness ==
    \E h \in DOMAIN fops :
        /\ "commands" \in fops[h].has
        /\ PassedAt(1) = 0 /\ PassedAt(2) >= 0
        /\ Len(funcs[43].switches) = 3
        /\ {c[1] : c \in fops[h].commands} \ {"ENTRY"} = {"ON_file"}

\* The constants an ioctl declaration of handler h refers to.
IoctlConsts(h) ==
    {Description(h).ioctls[i].cmd : i \in DOMAIN Description(h).ioctls}

\* The names of the lines of the constants file of handler h, as referred to.
ConstRefs(h) ==
    {"const[" \o ConstLines(h)[i].name \o "]" : i \in DOMAIN ConstLines(h)}

\* C28: the labels of the ioctl declarations of a written handler are
\* exactly the labels of its constants file.
C28_IoctlLabelsAreConstLabels ==
    \A h \in DOMAIN fops :
        (Finished(h) /\ Written(h)) => IoctlConsts(h) = ConstRefs(h)

\* The part of C28 on renaming: every constant an ioctl declaration of a
\* written handler refers to has a line in the handler's constants file,
\* and the lines carry the labels the commands hold after renaming.
C28_IoctlLabelsHaveConstLines ==
    \A h \in DOMAIN fops :
        (Finished(h) /\ Written(h)) =>
            /\ IoctlConsts(h) \subseteq ConstRefs(h)
            /\ ConstRefs(h) =
                 {"const[" \o c[1] \o "_syzdescriptor]" : c \in fops[h].commands}

====
